---- MODULE Spec2Model ----
(***************************************************************************)
(* A model of fetch_data.py (glab-stats): the quota throttle, the retry    *)
(* policy, the two listing fetchers (GitLab date-window pagination, GitHub *)
(* page pagination).                                                       *)
(*                                                                         *)
(* The listing fetchers count time in whole minutes, 0 being              *)
(* 2020-01-01T00:00Z (datetime.min, 0001-01-01, is then -DatetimeMinAgo,   *)
(* and the arithmetic stays within TLC's 32-bit integers).  An ISO-8601    *)
(* string is the record [iso |-> t]; a datetime is the integer t.          *)
(* Python's None is the empty tuple <<>> and a present value v is <<v>>    *)
(* wherever a field is optional.                                           *)
(***************************************************************************)
EXTENDS Integers, Sequences, FiniteSets, TLC

(***************************************************************************)
(* Bounds of the model.                                                    *)
(***************************************************************************)
MaxIid == 3          \* identifiers the unconstrained host draws from
MaxItems == 5        \* most items a well-behaved host holds
MaxLimit == 3        \* largest caller-supplied limit explored
MaxPageLen == 2      \* longest page the unconstrained host serves
MaxRequests == 6     \* listing requests explored per run
MaxNewPRs == 2       \* pull requests opened while a GitHub listing runs
DenseGap == 1        \* minutes between creation times in a busy repository
SparseGap == 1051920 \* the same in a dormant one (two years)
BigItems == 250      \* the end-to-end scenario: items held by the host
BigLimit == 200      \* the end-to-end scenario: the limit
DatetimeMinAgo == 1061890560  \* minutes from 0001-01-01 to 2020-01-01
NumWorkers == 2      \* threads sharing one ForgeContext
MaxCalls == 2        \* HTTP calls each of them makes
MaxTime == 3         \* seconds of clock explored with concurrent workers
RetryAfterSecs == 7  \* the Retry-After value a rejecting host sends
ResetAt == 5         \* the X-RateLimit-Reset time it sends
MaxRepos == 2        \* repositories in the configuration
MaxRecs == 2         \* records of the repository when one repository is explored
MaxRunRecs == 1      \* the same when several repositories are explored
MaxWorkers == 2      \* largest --workers explored
MaxNotePages == 2    \* pages of a comment or review collection
MaxPagRequests == 4  \* requests of one run of the generic paginator
MaxFlakyItems == 14  \* merge requests held by a host whose requests may fail
MaxFlakyLimit == 4   \* largest limit asked of such a host
MaxFlakyRequests == 9 \* requests of one run against such a host

MinTime == 0 - DatetimeMinAgo

(***************************************************************************)
(* Program constants.                                                      *)
(***************************************************************************)
MaxPerPage == 100
TargetMrs == 400
MinWindowMinutes == 60   \* 3600 seconds
max_empty_windows == 5
ThresholdFloor == 50
MaxAttempts == 5
BackoffMultiplier == 2
BackoffMin == 2
BackoffMax == 30

VARIABLES
    forge,               \* "gitlab" | "github" | "none": which fetcher runs
    host,                \* the remote host: [mode, n, gap]
    limit,               \* argument limit
    bot_accounts,        \* argument bot_accounts
    params,              \* GitLab: the request parameters (the window cursor)
    all_mrs,             \* the records collected so far (all_mrs / all_prs)
    seen_iids,           \* GitLab: iids already looked at
    empty_window_count,  \* GitLab: consecutive empty pages
    req_page,            \* GitHub: req_params["page"] of the paginator
    pc,                  \* "loop" | "returned" | "raised"
    requests,            \* listing requests issued so far
    last,                \* what the last step of the fetcher did
    thr,                 \* the throttle's quota state: [limit, remaining, reset_ts]
    now,                 \* time.time(), in seconds
    wk,                  \* the workers inside _simple_get / _checked_get
    hist,                \* what the responses and dispatches so far were
    conf,                \* main: the configuration and the environment
    run,                 \* main: where the main thread is, result, output file
    cur_mrs,             \* main: the list mrs of the repository being processed
    tasks                \* main: the detail task of each record of cur_mrs

listVars == <<forge, host, limit, bot_accounts, params, all_mrs, seen_iids,
              empty_window_count, req_page, pc, requests, last>>

httpVars == <<thr, now, wk, hist>>

orchVars == <<conf, run, cur_mrs, tasks>>

vars == <<listVars, httpVars, orchVars>>

Min(a, b) == IF a < b THEN a ELSE b
Max(a, b) == IF a > b THEN a ELSE b

(***************************************************************************)
(* datetime.isoformat / datetime.fromisoformat.                            *)
(***************************************************************************)
isoformat(dt) == [iso |-> dt]
fromisoformat(s) == s.iso

(***************************************************************************)
(* The items a host can list.  Creation times never decrease with the      *)
(* identifier; items 2k and 2k+1 share one creation time.                  *)
(***************************************************************************)
CreatedAtOf(i) == (i \div 2) * host.gap
AuthorOf(i) == IF i % 3 = 2 THEN "ci-bot" ELSE "dev"
Item(i) == [iid |-> i, created_at |-> isoformat(CreatedAtOf(i)), author |-> AuthorOf(i)]

NobodyIsBot(username, bots) == FALSE
is_bot_account(username, bots) == username \in bots

(***************************************************************************)
(* _compute_window_delta: <<>> for None, else <<seconds>>.                 *)
(***************************************************************************)
ClampDeltaNoFloor(secs12) == secs12
ClampDelta(secs12) == Max(secs12, MinWindowMinutes)

\* A window of no width.
ZeroDelta(mrs) == IF Len(mrs) < 2 THEN <<>> ELSE <<0>>
compute_window_delta(mrs) ==
    IF Len(mrs) < 2 THEN <<>>
    ELSE LET newest == fromisoformat(mrs[1].created_at)
             oldest == fromisoformat(mrs[Len(mrs)].created_at)
             span == newest - oldest
         IN IF span <= 0 THEN <<>>
            ELSE \* secs = target_mrs / (len / span); then secs * 1.2
                 <<ClampDelta((((TargetMrs * 12) \div 10) * span) \div Len(mrs))>>

(***************************************************************************)
(* _shift_window: [ok, raised, params].  raised is the OverflowError of    *)
(* before_dt - delta falling below datetime.min.                           *)
(***************************************************************************)
WindowActive(p) == "created_before" \in DOMAIN p /\ "created_after" \in DOMAIN p

AnchorOldest(p, mrs) == fromisoformat(mrs[Len(mrs)].created_at)
ShiftAnchor(p, mrs) ==
    IF WindowActive(p) THEN fromisoformat(p.created_after)
    ELSE fromisoformat(mrs[Len(mrs)].created_at)

\* if empty_window_count >= max_empty_windows
CapOneLater(empties) == empties > max_empty_windows
CapReached(empties) == empties >= max_empty_windows

\* The three assignments to params at the end of _shift_window.
ShiftKeepsPage(p, before_dt, after_dt) ==
    [page |-> p.page, created_before |-> isoformat(before_dt),
     created_after |-> isoformat(after_dt)]
ShiftedParams(p, before_dt, after_dt) ==
    [page |-> 1, created_before |-> isoformat(before_dt),
     created_after |-> isoformat(after_dt)]

shift_window(p, mrs, empties) ==
    LET fail == [ok |-> FALSE, raised |-> FALSE, params |-> p]
        delta == compute_window_delta(mrs)
    IN IF mrs = <<>> THEN fail
       ELSE IF CapReached(empties) THEN fail
       ELSE IF delta = <<>> THEN fail
       ELSE LET before_dt == ShiftAnchor(p, mrs)
                after_dt == before_dt - delta[1]
            IN IF after_dt < MinTime
               THEN [ok |-> FALSE, raised |-> TRUE, params |-> p]
               ELSE [ok |-> TRUE, raised |-> FALSE,
                     params |-> ShiftedParams(p, before_dt, after_dt)]

(***************************************************************************)
(* The hosts.  A well-behaved ("honest") host holds the items 1..host.n,   *)
(* lists them newest first, filters them by the window and cuts pages of   *)
(* per_page items; an unconstrained ("any") host answers what it likes; a  *)
(* "flaky" host is a well-behaved one some of whose requests fail with an  *)
(* HTTP error.                                                             *)
(* A response is [kind |-> "error"] or [kind |-> "ok", data, next], next   *)
(* being the x-next-page header (<<>> when absent or empty).               *)
(***************************************************************************)
Descending(n) == [k \in 1..n |-> Item(n - k + 1)]

InWindow(item, lo, hi) ==
    lo <= fromisoformat(item.created_at) /\ fromisoformat(item.created_at) <= hi

SelectSeqOf(s, lo, hi) == SelectSeq(s, LAMBDA item : InWindow(item, lo, hi))

PageOf(listing, page, per_page) ==
    SubSeq(listing, (page - 1) * per_page + 1, Min(page * per_page, Len(listing)))

HonestGitLabResponse(p, per_page) ==
    LET everything == Descending(host.n)
        listing == IF WindowActive(p)
                   THEN SelectSeqOf(everything, fromisoformat(p.created_after),
                                    fromisoformat(p.created_before))
                   ELSE everything
    IN [kind |-> "ok",
        data |-> PageOf(listing, p.page, per_page),
        next |-> IF p.page * per_page < Len(listing) THEN <<p.page + 1>> ELSE <<>>]

AnyPages ==
    UNION {[1..k -> {Item(i) : i \in 1..MaxIid}] : k \in 0..MaxPageLen}

AnyGitLabResponses(p) ==
    {[kind |-> "error"]}
    \cup {[kind |-> "ok", data |-> d, next |-> nx] :
            d \in AnyPages, nx \in {<<>>, <<p.page + 1>>}}

GitLabResponses(p, per_page) ==
    IF host.mode = "honest" THEN {HonestGitLabResponse(p, per_page)}
    ELSE IF host.mode = "flaky"
    THEN {[kind |-> "error"], HonestGitLabResponse(p, per_page)}
    ELSE AnyGitLabResponses(p)

(***************************************************************************)
(* fetch_merge_requests: the for loop over one page.                       *)
(* acc = [mrs, seen, new_in_page].                                         *)
(***************************************************************************)
NeverSeen(iid, seen) == FALSE
AlreadySeen(iid, seen) == iid \in seen

NoLimitBreak(mrs, lim) == FALSE
LimitReached(mrs, lim) == Len(mrs) >= lim

NormalizeMr(mr) == [iid |-> mr.iid, created_at |-> mr.created_at, author |-> mr.author]

\* The loop body for one entry of the page (a break leaves acc as it is).
MrStep(mr, lim, bots, acc) ==
    IF LimitReached(acc.mrs, lim) THEN acc
    ELSE IF AlreadySeen(mr.iid, acc.seen) THEN acc
    ELSE IF is_bot_account(mr.author, bots)
    THEN [acc EXCEPT !.seen = @ \cup {mr.iid}]
    ELSE [mrs |-> Append(acc.mrs, NormalizeMr(mr)),
          seen |-> acc.seen \cup {mr.iid},
          new_in_page |-> TRUE]

\* for mr in data[lo..hi], in order (split in halves to keep the nesting low).
RECURSIVE ProcessMrRange(_, _, _, _, _, _)
ProcessMrRange(data, lo, hi, lim, bots, acc) ==
    IF lo > hi THEN acc
    ELSE IF lo = hi THEN MrStep(data[lo], lim, bots, acc)
    ELSE LET mid == (lo + hi) \div 2
             left == ProcessMrRange(data, lo, mid, lim, bots, acc)
         IN IF LimitReached(left.mrs, lim) THEN left
            ELSE ProcessMrRange(data, mid + 1, hi, lim, bots, left)

ProcessMrPage(data, lim, bots, acc) == ProcessMrRange(data, 1, Len(data), lim, bots, acc)

(***************************************************************************)
(* fetch_merge_requests: one turn of the while loop per action.            *)
(***************************************************************************)
GitLabPerPage == Min(limit, MaxPerPage)

GitLabRequesting ==
    /\ forge = "gitlab"
    /\ pc = "loop"
    /\ Len(all_mrs) < limit
    /\ (host.mode = "any" => requests < MaxRequests)
    /\ (host.mode = "flaky" => requests < MaxFlakyRequests)

\* What _shift_window's result does to the loop: continue, break or raise.
AfterShift(sh, ev) ==
    /\ params' = sh.params
    /\ pc' = IF sh.ok THEN "loop" ELSE IF sh.raised THEN "raised" ELSE "returned"
    /\ last' = [ev |-> ev, shifted |-> sh.ok, windowed |-> WindowActive(params)]

GitLabReturn ==
    /\ forge = "gitlab"
    /\ pc = "loop"
    /\ ~(Len(all_mrs) < limit)
    /\ pc' = "returned"
    /\ last' = [ev |-> "limit", shifted |-> FALSE, windowed |-> WindowActive(params)]
    /\ UNCHANGED <<forge, host, limit, bot_accounts, params, all_mrs, seen_iids,
                   empty_window_count, req_page, requests>>
    /\ UNCHANGED <<httpVars, orchVars>>

GitLabHttpError ==
    /\ GitLabRequesting
    /\ \E r \in GitLabResponses(params, GitLabPerPage) :
         /\ r.kind = "error"
         /\ AfterShift(shift_window(params, all_mrs, empty_window_count), "error")
    /\ requests' = requests + 1
    /\ UNCHANGED <<forge, host, limit, bot_accounts, all_mrs, seen_iids,
                   empty_window_count, req_page>>
    /\ UNCHANGED <<httpVars, orchVars>>

GitLabEmptyPage ==
    /\ GitLabRequesting
    /\ \E r \in GitLabResponses(params, GitLabPerPage) :
         /\ r.kind = "ok"
         /\ r.data = <<>>
         /\ empty_window_count' = empty_window_count + 1
         /\ AfterShift(shift_window(params, all_mrs, empty_window_count + 1), "empty")
    /\ requests' = requests + 1
    /\ UNCHANGED <<forge, host, limit, bot_accounts, all_mrs, seen_iids, req_page>>
    /\ UNCHANGED <<httpVars, orchVars>>

GitLabPage ==
    /\ GitLabRequesting
    /\ \E r \in GitLabResponses(params, GitLabPerPage) :
         /\ r.kind = "ok"
         /\ r.data # <<>>
         /\ LET acc == ProcessMrPage(r.data, limit, bot_accounts,
                                     [mrs |-> all_mrs, seen |-> seen_iids,
                                      new_in_page |-> FALSE])
            IN /\ all_mrs' = acc.mrs
               /\ seen_iids' = acc.seen
               /\ empty_window_count' = 0
               /\ IF ~acc.new_in_page
                  THEN AfterShift(shift_window(params, acc.mrs, 0), "stale")
                  ELSE IF r.next # <<>>
                  THEN /\ params' = [params EXCEPT !.page = r.next[1]]
                       /\ pc' = "loop"
                       /\ last' = [ev |-> "page", shifted |-> FALSE,
                                   windowed |-> WindowActive(params)]
                  ELSE AfterShift(shift_window(params, acc.mrs, 0), "lastpage")
    /\ requests' = requests + 1
    /\ UNCHANGED <<forge, host, limit, bot_accounts, req_page>>
    /\ UNCHANGED <<httpVars, orchVars>>

(***************************************************************************)
(* GitHub.  The honest host cuts pages of per_page items out of its        *)
(* newest-first list; on a "live" host pull requests may be opened between *)
(* two page requests; the unconstrained host serves any page that names no *)
(* pull request twice, or makes _checked_get raise.                        *)
(***************************************************************************)
HonestGitHubResponse(page, per_page) ==
    [kind |-> "ok", data |-> PageOf(Descending(host.n), page, per_page)]

Injective(s) == \A i, j \in DOMAIN s : i # j => s[i] # s[j]

AnyGitHubResponses ==
    {[kind |-> "error"]}
    \cup {[kind |-> "ok", data |-> d] : d \in {q \in AnyPages : Injective(q)}}

GitHubResponses(page, per_page) ==
    IF host.mode = "any" THEN AnyGitHubResponses
    ELSE {HonestGitHubResponse(page, per_page)}

(***************************************************************************)
(* fetch_github_pull_requests: the for loop over one page.                 *)
(***************************************************************************)
NormalizePr(pr) == [iid |-> pr.iid, created_at |-> pr.created_at, author |-> pr.author]

\* The loop body for one entry of the page (a break leaves prs as it is).
PrStep(pr, lim, bots, prs) ==
    IF LimitReached(prs, lim) THEN prs
    ELSE IF is_bot_account(pr.author, bots) THEN prs
    ELSE Append(prs, NormalizePr(pr))

RECURSIVE ProcessPrRange(_, _, _, _, _, _)
ProcessPrRange(page, lo, hi, lim, bots, prs) ==
    IF lo > hi THEN prs
    ELSE IF lo = hi THEN PrStep(page[lo], lim, bots, prs)
    ELSE LET mid == (lo + hi) \div 2
             left == ProcessPrRange(page, lo, mid, lim, bots, prs)
         IN IF LimitReached(left, lim) THEN left
            ELSE ProcessPrRange(page, mid + 1, hi, lim, bots, left)

ProcessPrPage(page, lim, bots, prs) == ProcessPrRange(page, 1, Len(page), lim, bots, prs)

(***************************************************************************)
(* fetch_github_pull_requests driving _github_paginated_get: one request   *)
(* of the generator, the consumer's loop body, and the generator's         *)
(* decision to go on, per action.                                          *)
(***************************************************************************)
GitHubPerPage == Min(limit, MaxPerPage)

GitHubRequesting ==
    /\ forge = "github"
    /\ pc = "loop"
    /\ (host.mode = "any" => requests < MaxRequests)

ShortPageAlwaysLast(data, per_page) == TRUE
NeverShort(data, per_page) == FALSE
ShortPage(data, per_page) == Len(data) < per_page

GitHubRaise ==
    /\ GitHubRequesting
    /\ \E r \in GitHubResponses(req_page, GitHubPerPage) : r.kind = "error"
    /\ pc' = "raised"
    /\ last' = [ev |-> "error", shifted |-> FALSE, windowed |-> FALSE]
    /\ requests' = requests + 1
    /\ UNCHANGED <<forge, host, limit, bot_accounts, params, all_mrs, seen_iids,
                   empty_window_count, req_page>>
    /\ UNCHANGED <<httpVars, orchVars>>

GitHubEmptyPage ==
    /\ GitHubRequesting
    /\ \E r \in GitHubResponses(req_page, GitHubPerPage) :
         r.kind = "ok" /\ r.data = <<>>
    /\ pc' = "returned"
    /\ last' = [ev |-> "empty", shifted |-> FALSE, windowed |-> FALSE]
    /\ requests' = requests + 1
    /\ UNCHANGED <<forge, host, limit, bot_accounts, params, all_mrs, seen_iids,
                   empty_window_count, req_page>>
    /\ UNCHANGED <<httpVars, orchVars>>

GitHubPage ==
    /\ GitHubRequesting
    /\ \E r \in GitHubResponses(req_page, GitHubPerPage) :
         /\ r.kind = "ok"
         /\ r.data # <<>>
         /\ LET prs == ProcessPrPage(r.data, limit, bot_accounts, all_mrs)
            IN /\ all_mrs' = prs
               /\ IF LimitReached(prs, limit)
                  THEN pc' = "returned" /\ req_page' = req_page
                  ELSE IF ShortPage(r.data, GitHubPerPage)
                  THEN pc' = "returned" /\ req_page' = req_page
                  ELSE pc' = "loop" /\ req_page' = req_page + 1
    /\ last' = [ev |-> "page", shifted |-> FALSE, windowed |-> FALSE]
    /\ requests' = requests + 1
    /\ UNCHANGED <<forge, host, limit, bot_accounts, params, seen_iids,
                   empty_window_count>>
    /\ UNCHANGED <<httpVars, orchVars>>

\* A pull request is opened on the host while the listing is under way.
GitHubOpenPR ==
    /\ forge = "github"
    /\ host.mode = "live"
    /\ pc = "loop"
    /\ requests > 0
    /\ host.n < MaxItems + MaxNewPRs
    /\ host' = [host EXCEPT !.n = @ + 1]
    /\ UNCHANGED <<forge, limit, bot_accounts, params, all_mrs, seen_iids,
                   empty_window_count, req_page, pc, requests, last>>
    /\ UNCHANGED <<httpVars, orchVars>>

(***************************************************************************)
(* Initial states: both fetchers start with nothing collected.             *)
(***************************************************************************)
Forges == {"gitlab", "github"}
Gaps == {DenseGap, SparseGap}
BotLists == {{}, {"ci-bot"}}

\* No HTTP worker is modelled while a listing fetcher is looked at on its own.
OrchUnused ==
    /\ conf = <<>>
    /\ run = [pc |-> "none", i |-> 0, out |-> <<>>, disk |-> <<>>, exit |-> -1,
              online |-> FALSE, intr |-> FALSE]
    /\ cur_mrs = <<>>
    /\ tasks = <<>>

HttpUnused ==
    /\ thr = [limit |-> <<>>, remaining |-> <<>>, reset_ts |-> <<>>]
    /\ now = 0
    /\ wk = <<>>
    /\ hist = <<>>

ListingStart ==
    /\ HttpUnused
    /\ OrchUnused
    /\ params = [page |-> 1]
    /\ all_mrs = <<>>
    /\ seen_iids = {}
    /\ empty_window_count = 0
    /\ req_page = 1
    /\ pc = "loop"
    /\ requests = 0
    /\ last = [ev |-> "start", shifted |-> FALSE, windowed |-> FALSE]

\* Any host at all.
(***************************************************************************)
(* _github_paginated_get on its own, with a caller that takes every page   *)
(* (the comment and review fetchers).  limit holds per_page; last keeps    *)
(* the page numbers asked for, the responses and the pages yielded.  An    *)
(* "error" response is _checked_get raising after its retries.             *)
(***************************************************************************)
PaginatorPages ==
    {[k \in 1..n |-> Item(i)] : n \in 0..MaxPageLen, i \in 1..2}

PaginatorResponses ==
    {[kind |-> "error", data |-> <<>>]}
    \cup {[kind |-> "ok", data |-> d] : d \in PaginatorPages}

PaginatorRequest ==
    /\ forge = "paginator"
    /\ pc = "loop"
    /\ requests < MaxPagRequests
    /\ \E r \in PaginatorResponses :
         /\ last' = [asked |-> Append(last.asked, req_page),
                     got |-> Append(last.got, r),
                     yielded |-> IF r.kind = "ok" /\ r.data # <<>>
                                 THEN Append(last.yielded, r.data)
                                 ELSE last.yielded]
         /\ pc' = IF r.kind = "error" THEN "raised"
                  ELSE IF r.data = <<>> THEN "returned"
                  ELSE IF ShortPage(r.data, limit) THEN "returned"
                  ELSE "loop"
         /\ req_page' = IF r.kind = "ok" /\ r.data # <<>> /\ ~ShortPage(r.data, limit)
                        THEN req_page + 1
                        ELSE req_page
    /\ requests' = requests + 1
    /\ UNCHANGED <<forge, host, limit, bot_accounts, params, all_mrs, seen_iids,
                   empty_window_count>>
    /\ UNCHANGED <<httpVars, orchVars>>

InitPaginator ==
    /\ HttpUnused
    /\ OrchUnused
    /\ forge = "paginator"
    /\ host = [mode |-> "any", n |-> 0, gap |-> DenseGap]
    /\ limit \in 1..MaxPageLen
    /\ bot_accounts = {}
    /\ params = [page |-> 1]
    /\ all_mrs = <<>>
    /\ seen_iids = {}
    /\ empty_window_count = 0
    /\ req_page = 1
    /\ pc = "loop"
    /\ requests = 0
    /\ last = [asked |-> <<>>, got |-> <<>>, yielded |-> <<>>]

NextPaginator == PaginatorRequest

SpecPaginator == InitPaginator /\ [][NextPaginator]_vars

InitListing ==
    /\ forge \in Forges
    /\ host \in [mode : {"any"}, n : {0}, gap : Gaps]
    /\ limit \in 0..MaxLimit
    /\ bot_accounts \in BotLists
    /\ ListingStart

\* A well-behaved host; the last disjunct is the end-to-end scenario.
InitHonest ==
    /\ forge \in Forges
    /\ \/ /\ host \in [mode : {"honest"}, n : 0..MaxItems, gap : Gaps]
          /\ limit \in 0..MaxLimit
          /\ bot_accounts \in BotLists
       \/ /\ host = [mode |-> "honest", n |-> BigItems, gap |-> DenseGap]
          /\ limit = BigLimit
          /\ bot_accounts = {}
    /\ ListingStart

\* A GitHub host on which pull requests keep being opened.
InitLive ==
    /\ forge = "github"
    /\ host \in [mode : {"live"}, n : 0..MaxItems, gap : {DenseGap}]
    /\ limit \in 0..MaxLimit
    /\ bot_accounts \in BotLists
    /\ ListingStart

\* A well-behaved GitLab host some of whose requests fail; the bot list may
\* name either kind of author.
InitFlaky ==
    /\ forge = "gitlab"
    /\ host \in [mode : {"flaky"}, n : 0..MaxFlakyItems, gap : Gaps]
    /\ limit \in 1..MaxFlakyLimit
    /\ bot_accounts \in BotLists \cup {{"dev"}}
    /\ ListingStart

NextListing ==
    \/ GitLabReturn
    \/ GitLabHttpError
    \/ GitLabEmptyPage
    \/ GitLabPage
    \/ GitHubRaise
    \/ GitHubEmptyPage
    \/ GitHubPage

NextHonest ==
    \/ GitLabReturn
    \/ GitLabEmptyPage
    \/ GitLabPage
    \/ GitHubEmptyPage
    \/ GitHubPage

NextFlaky ==
    \/ GitLabReturn
    \/ GitLabHttpError
    \/ GitLabEmptyPage
    \/ GitLabPage

NextLive ==
    \/ GitHubEmptyPage
    \/ GitHubPage
    \/ GitHubOpenPR

SpecListing == InitListing /\ [][NextListing]_vars
SpecHonest == InitHonest /\ [][NextHonest]_vars
SpecLive == InitLive /\ [][NextLive]_vars
SpecFlaky == InitFlaky /\ [][NextFlaky]_vars

(***************************************************************************)
(* HTTP response headers.  A header value is a string, modelled by what    *)
(* int() and float() make of it: [t |-> "int", v |-> n] is the decimal n,  *)
(* "float" the string "n.0" (float() reads it, int() raises ValueError),   *)
(* "bad" a string neither reads, "empty" the empty string; "absent" is a   *)
(* header the response does not carry (headers.get returns None).          *)
(***************************************************************************)
Absent == [t |-> "absent", v |-> 0]
EmptyStr == [t |-> "empty", v |-> 0]
BadStr == [t |-> "bad", v |-> 0]
IntStr(n) == [t |-> "int", v |-> n]
FloatStr(n) == [t |-> "float", v |-> n]

Truthy(x) == x.t \notin {"absent", "empty"}
PyOr(a, b) == IF Truthy(a) THEN a ELSE b
IntParses(x) == x.t = "int"
FloatParses(x) == x.t \in {"int", "float"}

\* xl, xr, xs: X-RateLimit-Limit, -Remaining, -Reset; gl, gr, gs: the
\* RateLimit-* forms; ra: Retry-After.
NoHeaders == [xl |-> Absent, xr |-> Absent, xs |-> Absent,
              gl |-> Absent, gr |-> Absent, gs |-> Absent, ra |-> Absent]

(***************************************************************************)
(* RateLimitThrottle.update_from_response.                                 *)
(***************************************************************************)
KeepOnBadRemaining(q, raw) == [q EXCEPT !.remaining = <<0>>]
RemainingRejected(q, raw) == q

LimitAndReset(q, raw_limit, raw_reset) ==
    [q EXCEPT !.limit = IF raw_limit.t # "absent" /\ IntParses(raw_limit)
                        THEN <<raw_limit.v>> ELSE @,
              !.reset_ts = IF raw_reset.t # "absent" /\ FloatParses(raw_reset)
                           THEN <<raw_reset.v>> ELSE @]

update_from_response(q, h) ==
    LET raw_limit == PyOr(h.xl, h.gl)
        raw_remaining == PyOr(h.xr, h.gr)
        raw_reset == PyOr(h.xs, h.gs)
    IN IF raw_remaining.t = "absent" THEN q
       ELSE IF ~IntParses(raw_remaining) THEN RemainingRejected(q, raw_remaining)
       ELSE LimitAndReset([q EXCEPT !.remaining = <<raw_remaining.v>>],
                          raw_limit, raw_reset)

(***************************************************************************)
(* RateLimitThrottle.wait_if_needed: the part under the lock.              *)
(***************************************************************************)
Threshold(lim) ==
    Max(IF lim # <<>> /\ lim[1] # 0 THEN lim[1] \div 10 ELSE ThresholdFloor, ThresholdFloor)

WaitsStrictlyBelow(q, t) ==
    /\ q.remaining # <<>>
    /\ q.reset_ts # <<>>
    /\ q.remaining[1] < Threshold(q.limit)
    /\ q.reset_ts[1] - t > 0
MustWait(q, t) ==
    /\ q.remaining # <<>>
    /\ q.reset_ts # <<>>
    /\ ~(q.remaining[1] > Threshold(q.limit))
    /\ ~(q.reset_ts[1] - t <= 0)

(***************************************************************************)
(* The workers.  One of kind "simple" runs _simple_get MaxCalls times:     *)
(*   "check"    about to call wait_if_needed                               *)
(*   "waiting"  in the sleep loop of wait_if_needed, reset_ts its local    *)
(*   "ready"    wait_if_needed returned, session.get not yet sent          *)
(*   "inflight" the request is sent, the response not yet back             *)
(*   "done"     all calls made                                             *)
(* A worker of kind "checked" makes one call through _checked_get:         *)
(*   "sleeping" between two attempts, until wake                           *)
(*   "returned", "raised"  the call is over                                *)
(***************************************************************************)
Workers == DOMAIN wk

FewResponses ==
    {NoHeaders}
    \cup {[NoHeaders EXCEPT !.xr = IntStr(r), !.xs = IntStr(s)] :
            r \in {ThresholdFloor, ThresholdFloor + 11}, s \in {1, MaxTime}}

HeaderGrid ==
    {[xl |-> l, xr |-> r, xs |-> s] :
        l \in {Absent, BadStr, IntStr(0), IntStr(10 * ThresholdFloor + 10)},
        r \in {Absent, BadStr, FloatStr(ThresholdFloor), IntStr(ThresholdFloor),
               IntStr(ThresholdFloor + 1), IntStr(ThresholdFloor + 11)},
        s \in {Absent, BadStr, FloatStr(1), IntStr(MaxTime)}}

PlainGrid ==
    {[gl |-> l, gr |-> r, gs |-> s] :
        l \in {Absent, IntStr(10 * ThresholdFloor + 10)},
        r \in {Absent, BadStr, IntStr(ThresholdFloor)},
        s \in {BadStr, IntStr(MaxTime)}}

\* GitHub's X-RateLimit-* headers, GitLab's RateLimit-* headers, and both.
FullResponses ==
    {[NoHeaders EXCEPT !.xl = g.xl, !.xr = g.xr, !.xs = g.xs] : g \in HeaderGrid}
    \cup {[NoHeaders EXCEPT !.gl = g.gl, !.gr = g.gr, !.gs = g.gs] : g \in PlainGrid}
    \cup {[NoHeaders EXCEPT !.xr = x, !.gr = IntStr(ThresholdFloor), !.gs = IntStr(1)] :
            x \in {EmptyStr, BadStr, IntStr(ThresholdFloor + 11)}}

HostResponses == IF hist.grid = "full" THEN FullResponses ELSE FewResponses

\* The latest reset time a response so far announced together with a low quota.
LowUntil(q, t, before) ==
    IF MustWait(q, t) THEN Max(before, q.reset_ts[1]) ELSE before

WaitCheck(w) ==
    /\ wk[w].pc = "check"
    /\ wk' = [wk EXCEPT ![w] =
                IF MustWait(thr, now)
                THEN [@ EXCEPT !.pc = "waiting", !.reset_ts = thr.reset_ts]
                ELSE [@ EXCEPT !.pc = "ready"]]
    /\ UNCHANGED <<thr, now, hist>>
    /\ UNCHANGED <<listVars, orchVars>>

WakeAtShared(w) == thr.reset_ts # <<>> /\ ~(now < thr.reset_ts[1])
WakeAtLocal(w) == ~(now < wk[w].reset_ts[1])

WaitWake(w) ==
    /\ wk[w].pc = "waiting"
    /\ WakeAtLocal(w)
    /\ wk' = [wk EXCEPT ![w].pc = "ready"]
    /\ UNCHANGED <<thr, now, hist>>
    /\ UNCHANGED <<listVars, orchVars>>

Dispatch(w) ==
    /\ wk[w].pc = "ready"
    /\ wk' = [wk EXCEPT ![w].pc = "inflight"]
    /\ hist' = [hist EXCEPT !.sent = @ + 1]
    /\ UNCHANGED <<thr, now>>
    /\ UNCHANGED <<listVars, orchVars>>

\* session.get returns; update_from_response; raise_for_status ends the call.
SimpleRespond(w) ==
    /\ wk[w].pc = "inflight"
    /\ wk[w].kind = "simple"
    /\ \E h \in HostResponses :
         /\ thr' = update_from_response(thr, h)
         /\ hist' = [hist EXCEPT !.resp = <<h>>,
                                 !.n = @ + 1,
                                 !.low_until =
                                    IF IntParses(PyOr(h.xr, h.gr))
                                    THEN LowUntil(update_from_response(thr, h), now, @)
                                    ELSE @]
    /\ wk' = [wk EXCEPT ![w] =
                [@ EXCEPT !.calls = @ + 1,
                          !.reset_ts = <<>>,
                          !.pc = IF wk[w].calls + 1 < MaxCalls THEN "check" ELSE "done"]]
    /\ UNCHANGED now
    /\ UNCHANGED <<listVars, orchVars>>

(***************************************************************************)
(* The retry policy of _checked_get (tenacity).  Status 0 stands for a     *)
(* request that got no response: session.get raised a non-HTTP exception.  *)
(***************************************************************************)
Statuses == {0, 200, 403, 404, 500}

RetryHeaders ==
    {[NoHeaders EXCEPT !.ra = a, !.xr = r, !.xs = s] :
        a \in {Absent, BadStr, IntStr(0), IntStr(RetryAfterSecs)},
        r \in {Absent, IntStr(0), IntStr(ThresholdFloor)},
        s \in {Absent, BadStr, IntStr(ResetAt)}}
    \cup {[NoHeaders EXCEPT !.gr = IntStr(0), !.gs = IntStr(ResetAt)]}

RaisesForStatus(status) == status = 0 \/ (400 <= status /\ status < 600)
RetryClientErrors(status) == status # 0 /\ status >= 400
is_retryable_error(status) == status # 0 /\ (status = 403 \/ status >= 500)

StopOneLater(attempt) == attempt >= MaxAttempts + 1
stop_after_attempt(attempt) == attempt >= MaxAttempts

RECURSIVE Pow2(_)
Pow2(n) == IF n = 0 THEN 1 ELSE 2 * Pow2(n - 1)
LinearBackoff(attempt) ==
    Max(BackoffMin, Min(BackoffMultiplier * attempt, BackoffMax))
wait_exponential(attempt) ==
    Max(BackoffMin, Min(BackoffMultiplier * Pow2(attempt - 1), BackoffMax))

IgnoresRetryAfter(attempt, status, h, t) ==
    IF status = 403 /\ h.xr = IntStr(0) /\ Truthy(h.xs) /\ IntParses(h.xs)
    THEN Max(h.xs.v - t, 1)
    ELSE wait_exponential(attempt)
rate_limit_wait(attempt, status, h, t) ==
    IF status = 403 /\ Truthy(h.ra) /\ IntParses(h.ra)
    THEN Max(h.ra.v, 1)
    ELSE IF status = 403 /\ h.xr = IntStr(0) /\ Truthy(h.xs) /\ IntParses(h.xs)
    THEN Max(h.xs.v - t, 1)
    ELSE wait_exponential(attempt)

\* session.get returns or raises; update_from_response; raise_for_status;
\* then tenacity's decision: return, re-raise, or sleep and try again.
\* Lines 276-281: session.get, then update_from_response(resp) unless
\* session.get raised, then raise_for_status.
UpdatesAfterStatusCheck(q, status, h) ==
    IF RaisesForStatus(status) THEN q ELSE update_from_response(q, h)
QuotaAfter(q, status, h) ==
    IF status = 0 THEN q ELSE update_from_response(q, h)

CheckedRespond(w) ==
    /\ wk[w].pc = "inflight"
    /\ wk[w].kind = "checked"
    /\ \E status \in Statuses, h \in RetryHeaders :
         /\ thr' = QuotaAfter(thr, status, h)
         /\ hist' = [hist EXCEPT !.resp = <<h>>,
                                 !.at = now,
                                 !.n = @ + 1,
                                 !.log = Append(@, status)]
         /\ wk' = [wk EXCEPT ![w] =
                     IF ~RaisesForStatus(status)
                     THEN [@ EXCEPT !.pc = "returned"]
                     ELSE IF ~is_retryable_error(status)
                             \/ stop_after_attempt(wk[w].attempt)
                     THEN [@ EXCEPT !.pc = "raised"]
                     ELSE [@ EXCEPT !.pc = "sleeping",
                                    !.wake = now + rate_limit_wait(wk[w].attempt,
                                                                   status, h, now)]]
    /\ UNCHANGED now
    /\ UNCHANGED <<listVars, orchVars>>

RetryWake(w) ==
    /\ wk[w].pc = "sleeping"
    /\ ~(now < wk[w].wake)
    /\ wk' = [wk EXCEPT ![w] = [@ EXCEPT !.pc = "check", !.attempt = @ + 1]]
    /\ UNCHANGED <<thr, now, hist>>
    /\ UNCHANGED <<listVars, orchVars>>

\* Time passes while the worker sleeps, up to the moment it wakes.
WakeTime(w) ==
    IF wk[w].pc = "sleeping" THEN wk[w].wake
    ELSE IF wk[w].pc = "waiting" THEN wk[w].reset_ts[1]
    ELSE now
Elapse ==
    /\ \E w \in Workers :
         /\ WakeTime(w) > now
         /\ now' = WakeTime(w)
    /\ UNCHANGED <<thr, wk, hist>>
    /\ UNCHANGED <<listVars, orchVars>>

Tick ==
    /\ now < MaxTime
    /\ \E w \in Workers : wk[w].pc # "done"
    /\ now' = now + 1
    /\ UNCHANGED <<thr, wk, hist>>
    /\ UNCHANGED <<listVars, orchVars>>

(***************************************************************************)
(* Workers sharing one throttle.  SpecThrottle: NumWorkers threads and a   *)
(* host whose responses carry GitHub's remaining and reset headers or      *)
(* none.  SpecQuota: one thread and a host sending every header form.      *)
(***************************************************************************)
ListingUnused ==
    /\ forge = "none"
    /\ host = [mode |-> "none", n |-> 0, gap |-> DenseGap]
    /\ limit = 0
    /\ bot_accounts = {}
    /\ params = [page |-> 1]
    /\ all_mrs = <<>>
    /\ seen_iids = {}
    /\ empty_window_count = 0
    /\ req_page = 1
    /\ pc = "idle"
    /\ requests = 0
    /\ last = [ev |-> "start", shifted |-> FALSE, windowed |-> FALSE]

NewWorker(kind) ==
    [kind |-> kind, pc |-> "check", reset_ts |-> <<>>, calls |-> 0,
     attempt |-> 1, wake |-> 0]

InitHttp(n, grid) ==
    /\ ListingUnused
    /\ OrchUnused
    /\ thr = [limit |-> <<>>, remaining |-> <<>>, reset_ts |-> <<>>]
    /\ now = 0
    /\ wk = [w \in 1..n |-> NewWorker(IF grid = "retry" THEN "checked" ELSE "simple")]
    /\ hist = [grid |-> grid, low_until |-> 0, resp |-> <<>>, at |-> 0, n |-> 0,
               sent |-> 0, log |-> <<>>]

InitThrottle == InitHttp(NumWorkers, "few")
InitQuota == InitHttp(1, "full")

NextThrottle ==
    \/ \E w \in Workers : WaitCheck(w)
    \/ \E w \in Workers : WaitWake(w)
    \/ \E w \in Workers : Dispatch(w)
    \/ \E w \in Workers : SimpleRespond(w)
    \/ Tick

SpecThrottle == InitThrottle /\ [][NextThrottle]_vars
SpecQuota == InitQuota /\ [][NextThrottle]_vars

(***************************************************************************)
(* The throttle's lock.  SpecLock follows RateLimitThrottle statement by   *)
(* statement: thr.lock is the worker holding self._lock (0: nobody).       *)
(*   "check"     about to enter `with self._lock` of wait_if_needed        *)
(*   "w_locked"  inside it                                                 *)
(*   "w_print"   left it with a wait decided, about to print the message   *)
(*   "waiting"   in the sleep loop                                         *)
(*   "u_acquire" in update_from_response, about to enter `with self._lock` *)
(*   "u_locked"  inside it                                                 *)
(* decided is the remaining quota the wait was decided on, printed the one *)
(* the message shows.                                                      *)
(***************************************************************************)
NewLockWorker ==
    [kind |-> "locked", pc |-> "check", reset_ts |-> <<>>, calls |-> 0,
     attempt |-> 1, wake |-> 0, h |-> NoHeaders, decided |-> <<>>, printed |-> <<>>]

LockFrame ==
    /\ UNCHANGED <<now, hist>>
    /\ UNCHANGED <<listVars, orchVars>>

\* with self._lock: (either method)
LockAcquire(w) ==
    /\ wk[w].pc \in {"check", "u_acquire"}
    /\ thr.lock = 0
    /\ thr' = [thr EXCEPT !.lock = w]
    /\ wk' = [wk EXCEPT ![w].pc = IF @ = "check" THEN "w_locked" ELSE "u_locked"]
    /\ LockFrame

\* Lines 122-136: the body of the with block of wait_if_needed, and its end.
WaitLocked(w) ==
    /\ wk[w].pc = "w_locked"
    /\ wk' = [wk EXCEPT ![w] =
                IF MustWait(thr, now)
                THEN [@ EXCEPT !.pc = "w_print", !.reset_ts = thr.reset_ts,
                               !.decided = thr.remaining]
                ELSE [@ EXCEPT !.pc = "ready"]]
    /\ thr' = [thr EXCEPT !.lock = 0]
    /\ LockFrame

\* Lines 139-143: the message, with self._remaining as it is now.
WaitPrint(w) ==
    /\ wk[w].pc = "w_print"
    /\ wk' = [wk EXCEPT ![w] = [@ EXCEPT !.pc = "waiting", !.printed = thr.remaining]]
    /\ UNCHANGED thr
    /\ LockFrame

NextCall(w) == IF wk[w].calls + 1 < MaxCalls THEN "check" ELSE "done"

\* session.get returns; update_from_response up to `if raw_remaining is None`.
LockRespond(w) ==
    /\ wk[w].pc = "inflight"
    /\ wk[w].kind = "locked"
    /\ \E h \in HostResponses :
         wk' = [wk EXCEPT ![w] =
                  IF PyOr(h.xr, h.gr).t = "absent"
                  THEN [@ EXCEPT !.calls = @ + 1, !.pc = NextCall(w)]
                  ELSE [@ EXCEPT !.h = h, !.pc = "u_acquire"]]
    /\ UNCHANGED thr
    /\ LockFrame

\* Lines 108-118: the body of the with block of update_from_response.
UpdateLocked(w) ==
    /\ wk[w].pc = "u_locked"
    /\ thr' = [update_from_response(thr, wk[w].h) EXCEPT !.lock = 0]
    /\ wk' = [wk EXCEPT ![w] = [@ EXCEPT !.calls = @ + 1, !.pc = NextCall(w)]]
    /\ LockFrame

InitLock ==
    /\ ListingUnused
    /\ OrchUnused
    /\ thr = [limit |-> <<>>, remaining |-> <<>>, reset_ts |-> <<>>, lock |-> 0]
    /\ now = 0
    /\ wk = [w \in 1..NumWorkers |-> NewLockWorker]
    /\ hist = [grid |-> "few", low_until |-> 0, resp |-> <<>>, at |-> 0, n |-> 0,
               sent |-> 0, log |-> <<>>]

NextLock ==
    \/ \E w \in Workers : LockAcquire(w)
    \/ \E w \in Workers : WaitLocked(w)
    \/ \E w \in Workers : WaitPrint(w)
    \/ \E w \in Workers : WaitWake(w)
    \/ \E w \in Workers : Dispatch(w)
    \/ \E w \in Workers : LockRespond(w)
    \/ \E w \in Workers : UpdateLocked(w)
    \/ Tick

SpecLock == InitLock /\ [][NextLock]_vars

(***************************************************************************)
(* One call through _checked_get against a host that answers anything.     *)
(***************************************************************************)
InitRetry == InitHttp(1, "retry")

NextRetry ==
    \/ \E w \in Workers : WaitCheck(w)
    \/ \E w \in Workers : WaitWake(w)
    \/ \E w \in Workers : Dispatch(w)
    \/ \E w \in Workers : CheckedRespond(w)
    \/ \E w \in Workers : RetryWake(w)
    \/ Elapse

SpecRetry == InitRetry /\ [][NextRetry]_vars

\* Both request functions: one worker calling _simple_get MaxCalls times,
\* or one call through _checked_get.
InitOrder == InitHttp(1, "few") \/ InitRetry
NextOrder ==
    \/ hist.grid = "few" /\ NextThrottle
    \/ hist.grid = "retry" /\ NextRetry
SpecOrder == InitOrder /\ [][NextOrder]_vars

(***************************************************************************)
(* main: the orchestrator and its detail tasks.                            *)
(*                                                                         *)
(* A record is a function from field names to values, as the dict is; a    *)
(* field not yet set is not in its DOMAIN.  A listing is one call of       *)
(* fetch_merge_requests / fetch_github_pull_requests, of which only the    *)
(* outcome matters here: a list of records or an exception.  Each step of  *)
(* a detail task is one call of a fetch_* function.                        *)
(*                                                                         *)
(* run.pc:  "startup"  configuration and sessions (lines 896-955)          *)
(*          "list"     before the listing of repository run.i              *)
(*          "submit"   inside the executor, submitting tasks               *)
(*          "collect"  in the as_completed loop                            *)
(*          "write", "dump"   _write_result: open(.., "w"), json.dump      *)
(*          "shutdown" KeyboardInterrupt unwinding through the executor    *)
(*          "hwrite", "hdump" _write_result of the except clause           *)
(*          "exited"   the process is over, run.exit its status            *)
(***************************************************************************)
SetField(r, f, v) == [x \in DOMAIN r \cup {f} |-> IF x = f THEN v ELSE r[x]]
OverwriteField(r, f, v) == SetField(r, f, v)
setdefault(r, f, v) == IF f \in DOMAIN r THEN r ELSE SetField(r, f, v)

Titles == {"fix", "RHEL-1: fix"}
extract_jira_key(title) == IF title = "RHEL-1: fix" THEN <<"RHEL-1">> ELSE <<>>

Listed(n, titles) == [k \in 1..n |-> [iid |-> k, title |-> titles[k]]]
\* reply: what the issue tracker answered this task, "none" if never asked.
NewTask == [pc |-> "unsubmitted", seen |-> FALSE, reply |-> "none", failed_at |-> "none"]

forges_needed == {conf.repos[k] : k \in DOMAIN conf.repos}
ChecksNoToken == FALSE
TokenMissing ==
    \/ "gitlab" \in forges_needed /\ "gitlab" \notin conf.tokens
    \/ "github" \in forges_needed /\ "github" \notin conf.tokens
jira_session == "jira" \in conf.tokens

Exit(code) == [run EXCEPT !.pc = "exited", !.exit = code]

\* Lines 896-955: nothing here talks to a host.
Startup ==
    /\ run.pc = "startup"
    /\ run' = IF conf.repos = <<>> \/ TokenMissing
              THEN Exit(1)
              ELSE [run EXCEPT !.pc = "list", !.i = 1]
    /\ UNCHANGED <<conf, cur_mrs, tasks>>
    /\ UNCHANGED <<listVars, httpVars>>

\* The listing call returns its records.
ListRepo ==
    /\ run.pc = "list"
    /\ \E n \in 0..conf.maxrecs :
         \E titles \in IF conf.data = "any" THEN [1..n -> Titles]
                        ELSE {[k \in 1..n |-> IF k % 2 = 1 THEN "RHEL-1: fix" ELSE "fix"]} :
            /\ cur_mrs' = Listed(n, titles)
            /\ tasks' = [k \in 1..n |-> NewTask]
    /\ run' = [run EXCEPT !.pc = "submit", !.online = TRUE]
    /\ UNCHANGED conf
    /\ UNCHANGED <<listVars, httpVars>>

\* The listing call raises (an HTTP error of the GitHub listing, the
\* OverflowError of _shift_window): nothing catches it.
ListRaise ==
    /\ run.pc = "list"
    /\ run' = [Exit(1) EXCEPT !.online = TRUE]
    /\ UNCHANGED <<conf, cur_mrs, tasks>>
    /\ UNCHANGED <<listVars, httpVars>>

Unsubmitted == {k \in DOMAIN tasks : tasks[k].pc = "unsubmitted"}
Running == {k \in DOMAIN tasks : tasks[k].pc \in {"diff", "comments", "approvals", "jira"}}
AnyFuture == DOMAIN tasks
Finished == {k \in DOMAIN tasks : tasks[k].pc \in {"done", "failed"}}
PoolAlive == run.pc \in {"submit", "collect", "shutdown"}

\* executor.submit, in list order; after the last one the as_completed loop.
Submit ==
    /\ run.pc = "submit"
    /\ IF Unsubmitted = {}
       THEN /\ run' = [run EXCEPT !.pc = "collect"]
            /\ UNCHANGED tasks
       ELSE /\ tasks' = [tasks EXCEPT
                           ![CHOOSE k \in Unsubmitted : \A j \in Unsubmitted : k <= j].pc
                               = "queued"]
            /\ UNCHANGED run
    /\ UNCHANGED <<conf, cur_mrs>>
    /\ UNCHANGED <<listVars, httpVars>>

(***************************************************************************)
(* What the host holds for the detail calls, and what the fetch_*          *)
(* functions make of it.  Of a note, comment or review the output keeps    *)
(* the username and the timestamp; the timestamps here tell a system note  *)
(* from a user's and an approving review from another.                     *)
(***************************************************************************)
Users == {"dev", "ci-bot"}
NoteItems ==
    {[username |-> u, system |-> b, created_at |-> IF b THEN "t-system" ELSE "t-user"] :
        u \in Users, b \in BOOLEAN}
CommentItems == {n \in NoteItems : ~n.system}
ReviewItems ==
    {[username |-> u, state |-> st,
      submitted_at |-> IF st = "APPROVED" THEN "t-approved" ELSE "t-commented"] :
        u \in Users, st \in {"APPROVED", "COMMENTED"}}
ApprovedBy(u) == [username |-> u, approved_at |-> "t-approved"]
DiffStats == <<3, 1>>

RECURSIVE Concat(_)
Concat(pages) == IF pages = <<>> THEN <<>> ELSE Head(pages) \o Concat(Tail(pages))
CommentEntries(items) ==
    [k \in DOMAIN items |->
        [username |-> items[k].username, created_at |-> items[k].created_at]]
ApprovalEntries(items) ==
    [k \in DOMAIN items |->
        [username |-> items[k].username, approved_at |-> items[k].approved_at]]
ReviewEntries(items) ==
    [k \in DOMAIN items |->
        [username |-> items[k].username, approved_at |-> items[k].submitted_at]]

\* GitLab notes: pages of at most one note, each with or without x-next-page.
NotePages ==
    [notes : {<<>>} \cup {<<n>> : n \in NoteItems}, next : BOOLEAN]
GitLabNoteReplies ==
    IF conf.data = "any"
    THEN UNION {[1..n -> NotePages] : n \in 1..MaxNotePages}
    ELSE {<<[notes |-> <<CHOOSE n \in NoteItems : n.username = "dev" /\ ~n.system>>,
             next |-> FALSE]>>}

KeepsSystemNotes(note, bots) == ~is_bot_account(note.username, bots)
KeepNote(note, bots) == ~note.system /\ ~is_bot_account(note.username, bots)

RECURSIVE NotesLoop(_, _, _, _)
NotesLoop(pages, i, bots, comments) ==
    IF i > Len(pages) \/ pages[i].notes = <<>> THEN comments
    ELSE LET kept == comments \o CommentEntries(SelectSeq(pages[i].notes,
                                             LAMBDA note : KeepNote(note, bots)))
         IN IF ~pages[i].next THEN kept ELSE NotesLoop(pages, i + 1, bots, kept)
fetch_mr_comments(pages, bots) == NotesLoop(pages, 1, bots, <<>>)

GitLabApprovalReplies ==
    IF conf.data = "any"
    THEN {<<>>} \cup {<<ApprovedBy(u)>> : u \in Users}
              \cup {<<ApprovedBy("ci-bot"), ApprovedBy(u)>> : u \in Users}
    ELSE {<<ApprovedBy("dev")>>}
fetch_mr_approvals(approved_by, bots) ==
    ApprovalEntries(SelectSeq(approved_by, LAMBDA entry : ~is_bot_account(entry.username, bots)))

\* GitHub collections: a short page, or a full page of one bot's entries
\* followed by a short page.
FullPage(item) == [k \in 1..MaxPerPage |-> item]
RECURSIVE SetToSeq(_)
SetToSeq(S) == IF S = {} THEN <<>>
               ELSE LET x == CHOOSE y \in S : TRUE IN <<x>> \o SetToSeq(S \ {x})
ShortPages(items) == {<<>>} \cup {<<x>> : x \in items}
GitHubPagesOf(items) ==
    IF conf.data = "any"
    THEN {<<p>> : p \in ShortPages(items)}
         \cup {<<FullPage(x), p>> : x \in {y \in items : y.username = "ci-bot"},
                                    p \in ShortPages(items)}
    ELSE {<<SetToSeq({y \in items : y.username = "dev"})>>}

RECURSIVE github_paginated_get(_, _, _)
github_paginated_get(pages, i, per_page) ==
    IF i > Len(pages) \/ pages[i] = <<>> THEN <<>>
    ELSE <<pages[i]>> \o (IF Len(pages[i]) < per_page THEN <<>>
                          ELSE github_paginated_get(pages, i + 1, per_page))

fetch_github_pr_comments(issue_pages, review_pages, bots) ==
    CommentEntries(SelectSeq(Concat(github_paginated_get(issue_pages, 1, MaxPerPage)),
                        LAMBDA c : ~is_bot_account(c.username, bots)))
    \o CommentEntries(SelectSeq(Concat(github_paginated_get(review_pages, 1, MaxPerPage)),
                                LAMBDA c : ~is_bot_account(c.username, bots)))
fetch_github_pr_approvals(pages, bots) ==
    ReviewEntries(SelectSeq(Concat(github_paginated_get(pages, 1, MaxPerPage)),
                            LAMBDA review : /\ ~(review.state # "APPROVED")
                                            /\ ~is_bot_account(review.username, bots)))

\* The issue tracker's answers to GET /rest/api/2/issue/KEY?fields=priority:
\* a priority, no priority, an error status, no connection, and a body whose
\* "fields" is null (the .get on None raises AttributeError).
JiraReplies == {"Major", "unset", "http_error", "conn_error", "garbled"}
CatchesNothing(reply) == FALSE
IsRequestException(reply) == reply \in {"http_error", "conn_error"}
fetch_jira_priority(reply) ==
    IF reply \in {"Major", "unset"}
    THEN [raised |-> FALSE, value |-> IF reply = "unset" THEN <<>> ELSE <<reply>>]
    ELSE IF IsRequestException(reply)
    THEN [raised |-> FALSE, value |-> <<>>]
    ELSE [raised |-> TRUE, value |-> <<>>]

(***************************************************************************)
(* The detail tasks: _fetch_mr_details / _fetch_github_pr_details, one     *)
(* step per fetch_* call.  A call that raises ends the task.               *)
(***************************************************************************)
CurForge == conf.repos[run.i]
Fails(k, step) == [tasks EXCEPT ![k] = [@ EXCEPT !.pc = "failed", !.failed_at = step]]
Goes(k, step) == [tasks EXCEPT ![k].pc = step]
\* The calls the host lets fail in this run.
MayFail(step) == step \in conf.faults
TaskFrame ==
    /\ UNCHANGED <<conf, run>>
    /\ UNCHANGED <<listVars, httpVars>>

\* A pool thread takes the oldest queued work item.
TaskStart(k) ==
    /\ PoolAlive
    /\ tasks[k].pc = "queued"
    /\ \A j \in DOMAIN tasks : tasks[j].pc = "queued" => k <= j
    /\ Cardinality(Running) < conf.workers
    /\ tasks' = Goes(k, "diff")
    /\ UNCHANGED cur_mrs
    /\ TaskFrame

TaskDiff(k) ==
    /\ PoolAlive
    /\ tasks[k].pc = "diff"
    /\ \/ /\ cur_mrs' = [cur_mrs EXCEPT ![k] =
                           SetField(SetField(@, "additions", DiffStats[1]),
                                    "deletions", DiffStats[2])]
          /\ tasks' = Goes(k, "comments")
       \/ /\ MayFail("diff")
          /\ tasks' = Fails(k, "diff")
          /\ UNCHANGED cur_mrs
    /\ TaskFrame

\* What the comment and the approval fetchers can return for a record of
\* the current repository, over the pages the host may serve.
CommentsFetched ==
    IF CurForge = "gitlab"
    THEN {fetch_mr_comments(pages, conf.bots) : pages \in GitLabNoteReplies}
    ELSE {fetch_github_pr_comments(ip, rp, conf.bots) :
            ip \in GitHubPagesOf(CommentItems), rp \in GitHubPagesOf(CommentItems)}
ApprovalsFetched ==
    IF CurForge = "gitlab"
    THEN {fetch_mr_approvals(a, conf.bots) : a \in GitLabApprovalReplies}
    ELSE {fetch_github_pr_approvals(pages, conf.bots) : pages \in GitHubPagesOf(ReviewItems)}

TaskComments(k) ==
    /\ PoolAlive
    /\ tasks[k].pc = "comments"
    /\ \/ /\ \E commenters \in CommentsFetched :
                cur_mrs' = [cur_mrs EXCEPT ![k] = SetField(@, "commenters", commenters)]
          /\ tasks' = Goes(k, "approvals")
       \/ /\ MayFail("comments")
          /\ tasks' = Fails(k, "comments")
          /\ UNCHANGED cur_mrs
    /\ TaskFrame

TaskApprovals(k) ==
    /\ PoolAlive
    /\ tasks[k].pc = "approvals"
    /\ \/ /\ \E approvers \in ApprovalsFetched :
                cur_mrs' = [cur_mrs EXCEPT ![k] = SetField(@, "approvers", approvers)]
          /\ tasks' = Goes(k, "jira")
       \/ /\ MayFail("approvals")
          /\ tasks' = Fails(k, "approvals")
          /\ UNCHANGED cur_mrs
    /\ TaskFrame

\* Lines 703-710: the key from the title, then the lookup if there is a key
\* and a session.
TaskJira(k) ==
    /\ PoolAlive
    /\ tasks[k].pc = "jira"
    /\ LET jira_key == extract_jira_key(cur_mrs[k].title)
           keyed == SetField(cur_mrs[k], "jira_key", jira_key)
       IN IF jira_key # <<>> /\ jira_session
          THEN \E reply \in IF MayFail("jira") THEN JiraReplies ELSE {"Major"} :
                 LET priority == fetch_jira_priority(reply)
                 IN IF priority.raised
                    THEN /\ cur_mrs' = [cur_mrs EXCEPT ![k] = keyed]
                         /\ tasks' = [Fails(k, "jira") EXCEPT ![k].reply = reply]
                    ELSE /\ cur_mrs' = [cur_mrs EXCEPT ![k] =
                                          SetField(keyed, "jira_priority", priority.value)]
                         /\ tasks' = [Goes(k, "done") EXCEPT ![k].reply = reply]
          ELSE /\ cur_mrs' = [cur_mrs EXCEPT ![k] = SetField(keyed, "jira_priority", <<>>)]
               /\ tasks' = Goes(k, "done")
    /\ TaskFrame

(***************************************************************************)
(* main, continued: collecting the tasks, appending, writing, and the      *)
(* KeyboardInterrupt.                                                      *)
(***************************************************************************)
NoDefaults(mr) == mr
FillDefaults(mr) ==
    setdefault(setdefault(setdefault(setdefault(setdefault(setdefault(mr,
        "additions", 0), "deletions", 0), "commenters", <<>>), "approvers", <<>>),
        "jira_key", <<>>), "jira_priority", <<>>)

\* One turn of the as_completed loop: future.result(), defaults on failure.
Collect(k) ==
    /\ run.pc = "collect"
    /\ k \in Finished
    /\ ~tasks[k].seen
    /\ tasks' = [tasks EXCEPT ![k].seen = TRUE]
    /\ cur_mrs' = IF tasks[k].pc = "failed"
                  THEN [cur_mrs EXCEPT ![k] = FillDefaults(@)]
                  ELSE cur_mrs
    /\ UNCHANGED <<conf, run>>
    /\ UNCHANGED <<listVars, httpVars>>

\* result["repositories"].append(...)
PrependRepository(repositories, entry) == <<entry>> \o repositories
AppendRepository(repositories, entry) == Append(repositories, entry)

\* The loop is over, the executor is left, the repository is appended.
AppendRepo ==
    /\ run.pc = "collect"
    /\ \A k \in DOMAIN tasks : tasks[k].seen
    /\ run' = [run EXCEPT !.pc = "write",
                          !.out = AppendRepository(@, [repo |-> run.i,
                                                       merge_requests |-> cur_mrs])]
    /\ UNCHANGED <<conf, cur_mrs, tasks>>
    /\ UNCHANGED <<listVars, httpVars>>

DumpsLastOnly(repositories) ==
    <<IF repositories = <<>> THEN <<>> ELSE <<repositories[Len(repositories)]>>>>
json_dump(repositories) == <<repositories>>

\* _write_result: open(OUTPUT_PATH, "w") empties the file ...
WriteOpen ==
    /\ run.pc \in {"write", "hwrite"}
    /\ run' = [run EXCEPT !.pc = IF @ = "write" THEN "dump" ELSE "hdump",
                          !.disk = <<>>]
    /\ UNCHANGED <<conf, cur_mrs, tasks>>
    /\ UNCHANGED <<listVars, httpVars>>

\* ... and json.dump writes the whole result; then the next repository,
\* the end of main, or sys.exit(130).
WriteDump ==
    /\ run.pc \in {"dump", "hdump"}
    /\ run' = IF run.pc = "hdump"
              THEN [Exit(130) EXCEPT !.disk = json_dump(run.out)]
              ELSE IF run.i < Len(conf.repos)
              THEN [run EXCEPT !.disk = json_dump(run.out), !.pc = "list", !.i = @ + 1]
              ELSE [Exit(0) EXCEPT !.disk = json_dump(run.out)]
    /\ UNCHANGED <<conf, cur_mrs, tasks>>
    /\ UNCHANGED <<listVars, httpVars>>

\* KeyboardInterrupt in the main thread, anywhere inside the try block.
\* Inside the executor it first unwinds through ThreadPoolExecutor.__exit__,
\* which waits for every submitted task.
Interrupt ==
    /\ ~run.intr
    /\ run.pc \in {"list", "submit", "collect", "write", "dump"}
    /\ run' = [run EXCEPT !.intr = TRUE,
                          !.pc = IF @ \in {"submit", "collect"} THEN "shutdown" ELSE "hwrite"]
    /\ UNCHANGED <<conf, cur_mrs, tasks>>
    /\ UNCHANGED <<listVars, httpVars>>

\* shutdown(wait=True): every submitted task is over.
DoesNotWait == TRUE
PoolJoined == \A k \in DOMAIN tasks : tasks[k].pc \in {"unsubmitted", "done", "failed"}

ShutdownDone ==
    /\ run.pc = "shutdown"
    /\ PoolJoined
    /\ run' = [run EXCEPT !.pc = "hwrite"]
    /\ UNCHANGED <<conf, cur_mrs, tasks>>
    /\ UNCHANGED <<listVars, httpVars>>

AllTokens == {"gitlab", "github", "jira"}

Steps == {"diff", "comments", "approvals", "jira"}

InitOrch(maxrepos, maxrecs, pools, envs, data, faults) ==
    /\ ListingUnused
    /\ HttpUnused
    /\ conf \in [repos : UNION {[1..n -> Forges] : n \in 0..maxrepos},
                tokens : envs,
                workers : pools,
                bots : {{"ci-bot"}},
                data : {data},
                faults : {faults},
                maxrecs : {maxrecs}]
    /\ run = [pc |-> "startup", i |-> 0, out |-> <<>>, disk |-> <<>>, exit |-> -1,
              online |-> FALSE, intr |-> FALSE]
    /\ cur_mrs = <<>>
    /\ tasks = <<>>

\* Several repositories of few records; one repository of several records;
\* one record against a host that answers the detail calls with anything.
InitRun ==
    InitOrch(MaxRepos, MaxRunRecs, {MaxWorkers},
             {AllTokens} \cup {AllTokens \ {t} : t \in AllTokens}, "fixed", {"comments"})
InitBatch ==
    InitOrch(1, MaxRecs, 1..MaxWorkers, {AllTokens, AllTokens \ {"jira"}}, "fixed", Steps)
\* Several repositories of several records each, every token set, no
\* failing detail call.
InitSchedule ==
    InitOrch(MaxRepos, MaxRecs, {MaxWorkers}, {AllTokens}, "fixed", {})
InitDetail ==
    InitOrch(1, 1, {1}, {AllTokens, AllTokens \ {"jira"}}, "any", Steps)

NextOrch ==
    \/ Startup
    \/ ListRepo
    \/ ListRaise
    \/ Submit
    \/ \E k \in DOMAIN tasks : TaskStart(k)
    \/ \E k \in DOMAIN tasks : TaskDiff(k)
    \/ \E k \in DOMAIN tasks : TaskComments(k)
    \/ \E k \in DOMAIN tasks : TaskApprovals(k)
    \/ \E k \in DOMAIN tasks : TaskJira(k)
    \/ \E k \in DOMAIN tasks : Collect(k)
    \/ AppendRepo
    \/ WriteOpen
    \/ WriteDump
    \/ Interrupt
    \/ ShutdownDone

SpecRun == InitRun /\ [][NextOrch]_vars
SpecSchedule == InitSchedule /\ [][NextOrch]_vars
SpecBatch == InitBatch /\ [][NextOrch]_vars
SpecDetail == InitDetail /\ [][NextOrch]_vars

\* The listing fetchers and the detail tasks side by side: a run is either a
\* listing call or an orchestrator run over one record with any host pages.
InitBots == InitListing \/ InitDetail
NextBots == NextListing \/ NextOrch
SpecBots == InitBots /\ [][NextBots]_vars

(***************************************************************************)
(* Properties of the listing fetchers.                                     *)
(***************************************************************************)
Iids(records) == {records[k].iid : k \in DOMAIN records}
NoDuplicateIid(records) == \A i, j \in DOMAIN records : i # j => records[i].iid # records[j].iid
NoBotItem == \A i \in 1..host.n : ~is_bot_account(AuthorOf(i), bot_accounts)

\* C1: against a well-behaved host holding host.n distinct items, none by a bot,
\* each listing fetcher ends by returning exactly min(host.n, limit) records.
C1_ExactCount ==
    (pc # "loop" /\ NoBotItem) =>
        (pc = "returned" /\ Len(all_mrs) = Min(host.n, limit))

\* C2: in fetch_merge_requests the seen-id set only grows, every record
\* appended has an iid that was not in the seen-id set before the step (and is in
\* it afterwards), and the list never holds two records with the same iid.
C2_GitLabNoDuplicate ==
    [][forge = "gitlab" =>
          /\ seen_iids \subseteq seen_iids'
          /\ SubSeq(all_mrs', 1, Len(all_mrs)) = all_mrs
          /\ \A k \in (Len(all_mrs) + 1)..Len(all_mrs') :
                all_mrs'[k].iid \notin seen_iids
          /\ Iids(all_mrs') \subseteq seen_iids'
          /\ NoDuplicateIid(all_mrs')]_vars

\* A page of already-seen records was replayed inside an active window.
C2_Witness ==
    /\ forge = "gitlab"
    /\ last.ev = "stale"
    /\ last.windowed
    /\ bot_accounts = {}
    /\ Len(all_mrs) >= 2

\* C3: the records of one repository never hold the same iid twice, on either
\* host.
C3_UniqueIid == NoDuplicateIid(all_mrs)

\* C4: the records collected never exceed the limit, and a listing request
\* is only issued while fewer than limit records are collected.
C4_LimitBound ==
    [][/\ Len(all_mrs') <= limit
       /\ (requests' > requests => Len(all_mrs) < limit)]_vars

\* C4 as amended: the same, except that fetch_github_pull_requests issues its
\* first request even when the limit is 0.
C4_LimitBoundAmended ==
    [][/\ Len(all_mrs') <= limit
       /\ (requests' > requests =>
             \/ Len(all_mrs) < limit
             \/ (forge = "github" /\ requests = 0 /\ limit = 0))]_vars

\* The limit was reached after more than one request, and the fetcher returned.
C4_Witness ==
    /\ pc = "returned"
    /\ limit >= 2
    /\ Len(all_mrs) = limit
    /\ requests >= 2

\* C5: a shift made while a window is active sets a created_after strictly
\* earlier than the one before, every window is at least an hour wide, and a
\* shift that fails ends the pagination.
ShiftTried(l) == l.ev \in {"error", "empty", "stale", "lastpage"}

C5_ShiftsMoveBackward ==
    [][(forge = "gitlab" /\ ShiftTried(last')) =>
          IF last'.shifted
          THEN /\ WindowActive(params')
               /\ pc' = "loop"
               /\ fromisoformat(params'.created_before)
                    - fromisoformat(params'.created_after) >= MinWindowMinutes
               /\ WindowActive(params) =>
                    fromisoformat(params'.created_after)
                        < fromisoformat(params.created_after)
          ELSE pc' \in {"returned", "raised"} /\ params' = params]_vars

\* A window was shifted while a window was already active.
C5_Witness ==
    /\ forge = "gitlab"
    /\ last.shifted
    /\ last.windowed
    /\ pc = "loop"


(***************************************************************************)
(* Properties of the throttle.                                             *)
(***************************************************************************)
Sends(w) == wk[w].pc = "ready" /\ wk'[w].pc = "inflight"

\* C6: once a response has reported a quota at or below the safety
\* threshold with a reset time still ahead, no worker sharing the throttle
\* sends a request before that reset time.
C6_NoDispatchBeforeReset ==
    [][\A w \in Workers : Sends(w) => ~(now < hist.low_until)]_vars

\* C7: a worker blocked in wait_if_needed resumes as soon as the clock
\* reaches the reset time the throttle currently holds, also when another
\* worker lowered it after this one started waiting.
C7_UpdatedResetShortensWait ==
    \A w \in Workers :
        (wk[w].pc = "waiting" /\ WakeAtShared(w)) => ENABLED WaitWake(w)

Responded == hist'.n = hist.n + 1
Heard == hist'.resp[1]
\* The value the throttle reads for a header: the X-RateLimit-* form, or
\* the RateLimit-* form when the first is missing or empty.
HeaderOf(x, g) == IF x.t \in {"absent", "empty"} THEN g ELSE x

\* C8: a response whose remaining header is missing or not an integer
\* leaves limit, remaining and reset time as they were; a malformed limit
\* or reset header beside a valid remaining leaves that one field as it was.
C8_MalformedHeadersIgnored ==
    [][Responded =>
        /\ HeaderOf(Heard.xr, Heard.gr).t # "int" => thr' = thr
        /\ HeaderOf(Heard.xl, Heard.gl).t \in {"bad", "empty", "float"}
              => thr'.limit = thr.limit
        /\ HeaderOf(Heard.xs, Heard.gs).t \in {"bad", "empty"}
              => thr'.reset_ts = thr.reset_ts]_vars
C8_Witness ==
    /\ hist.n = 2
    /\ thr.remaining = <<ThresholdFloor>>
    /\ thr.limit # <<>>
    /\ thr.reset_ts # <<>>
    /\ HeaderOf(hist.resp[1].xr, hist.resp[1].gr).t = "bad"
    /\ HeaderOf(hist.resp[1].xl, hist.resp[1].gl).t = "int"
    /\ HeaderOf(hist.resp[1].xl, hist.resp[1].gl).v # thr.limit[1]

Checks(w) == wk[w].pc = "check" /\ wk'[w].pc # "check"

\* C9: wait_if_needed blocks exactly when remaining and reset time are both
\* known, remaining is at most max(10% of limit, 50) (50 with the limit
\* unknown) and the reset time is in the future; otherwise it returns.
C9_BlocksExactlyWhenLow ==
    [][\A w \in Workers : Checks(w) =>
        (wk'[w].pc = "waiting" <=>
            /\ thr.remaining # <<>>
            /\ thr.reset_ts # <<>>
            /\ IF thr.limit = <<>>
               THEN thr.remaining[1] <= 50
               ELSE thr.remaining[1] <= 50 \/ 10 * thr.remaining[1] <= thr.limit[1]
            /\ thr.reset_ts[1] > now)
        /\ (wk'[w].pc # "waiting" => wk'[w].pc = "ready")]_vars
C9_Witness ==
    /\ wk[1].pc = "waiting"
    /\ thr.limit # <<>>
    /\ thr.remaining[1] > 50

(***************************************************************************)
(* Properties of the retry policy.                                         *)
(***************************************************************************)
Always500 == \A i \in 1..Len(hist.log) : hist.log[i] = 500
CallOver == wk[1].pc \in {"returned", "raised"}

\* C10: against a host that answers every attempt with 500, a call through
\* _checked_get sends at most 5 requests, never returns a value, ends only
\* by raising after the 5th response, and until then always has a next step.
C10_FiveAttemptsThenRaise ==
    Always500 =>
        /\ hist.sent <= 5
        /\ wk[1].pc # "returned"
        /\ wk[1].pc = "raised" => (hist.sent = 5 /\ Len(hist.log) = 5)
        /\ ~CallOver => ENABLED NextRetry
C10_Witness ==
    /\ Always500
    /\ wk[1].pc = "raised"
    /\ hist.sent = 5
    /\ now >= 30

LastStatus == hist.log[Len(hist.log)]
Rejected == hist.log # <<>> /\ LastStatus = 403

\* C11: after a 403 whose Retry-After header is the integer s, answered at
\* time hist.at, the next attempt is sent no earlier than hist.at + s and no
\* earlier than hist.at + 1.
C11_RetryAfterHonoured ==
    [][\A w \in Workers :
        (Sends(w) /\ Rejected /\ hist.resp[1].ra.t = "int") =>
            /\ now >= hist.at + hist.resp[1].ra.v
            /\ now >= hist.at + 1]_vars
C11_Witness ==
    /\ wk[1].pc = "inflight"
    /\ wk[1].attempt = 2
    /\ Rejected
    /\ hist.resp[1].ra = IntStr(RetryAfterSecs)
    /\ thr.remaining = <<>>
    /\ now = hist.at + RetryAfterSecs

Failed(status) == status # 200
\* Any rate-limit header at all on the response.
QuotaSignals(h) == \E f \in DOMAIN h : h[f].t # "absent"
Retried == wk'[1].pc = "sleeping"
Propagated == wk'[1].pc = "raised"

\* C12: a failed attempt is retried only if its status is >= 500, or 403
\* with a rate-limit or Retry-After header; any other failure (a 404, a 403
\* without such a header, a non-HTTP exception) ends the call at once.
C12_RetriesOnlyTransient ==
    [][(Responded /\ Failed(LastStatus')) =>
        IF LastStatus' >= 500 \/ (LastStatus' = 403 /\ QuotaSignals(Heard))
        THEN Retried \/ (Propagated /\ hist.sent = 5)
        ELSE Propagated /\ ~Retried]_vars

\* C12 amended: a failed attempt is retried only if its status is >= 500 or
\* 403, whatever headers it carries; a 404 and a non-HTTP exception end the
\* call at once, after a single attempt when they answer the first one.
C12_Retries403And5xx ==
    [][(Responded /\ Failed(LastStatus')) =>
        IF LastStatus' >= 500 \/ LastStatus' = 403
        THEN Retried \/ (Propagated /\ hist.sent = 5)
        ELSE Propagated /\ ~Retried /\ (hist.log = <<>> => hist'.sent = 1)]_vars
C12_Witness ==
    /\ wk[1].pc = "raised"
    /\ hist.sent = 1
    /\ hist.log \in {<<0>>, <<404>>}

\* The doubling delays of attempts 1 to 4.
Doubling(attempt) ==
    CASE attempt = 1 -> 2 [] attempt = 2 -> 4 [] attempt = 3 -> 8 [] OTHER -> 16
Waited == wk'[1].wake - now

\* C13: on every retried failure, 5xx or 403, the wait is the Retry-After
\* value if the response has an integer one, else the time to the quota
\* reset if it reports zero remaining (each at least 1 second), else 2, 4,
\* 8, 16 seconds by attempt.
C13_WaitOrder ==
    [][(Responded /\ Retried) =>
        /\ Waited =
             IF Heard.ra.t = "int" THEN Max(Heard.ra.v, 1)
             ELSE IF Heard.xr = IntStr(0) /\ Heard.xs.t = "int"
             THEN Max(Heard.xs.v - now, 1)
             ELSE Doubling(wk[1].attempt)
        /\ Doubling(wk[1].attempt) <= 30]_vars

\* C13 amended: the headers decide the wait only on a 403; on a 5xx the
\* wait is always 2, 4, 8, 16 seconds by attempt.
C13_WaitOrderOn403 ==
    [][(Responded /\ Retried) =>
        /\ Waited =
             IF LastStatus' = 403 /\ Heard.ra.t = "int" THEN Max(Heard.ra.v, 1)
             ELSE IF LastStatus' = 403 /\ Heard.xr = IntStr(0) /\ Heard.xs.t = "int"
             THEN Max(Heard.xs.v - now, 1)
             ELSE Doubling(wk[1].attempt)
        /\ Doubling(wk[1].attempt) <= 30]_vars
C13_Witness ==
    /\ wk[1].pc = "sleeping"
    /\ wk[1].attempt = 3
    /\ LastStatus = 500
    /\ hist.resp[1].ra = IntStr(RetryAfterSecs)
    /\ wk[1].wake = hist.at + 8

(***************************************************************************)
(* Properties of the orchestrator and of the detail tasks.                 *)
(***************************************************************************)
Has(mr, key) == key \in DOMAIN mr
AllSix(mr) ==
    {"additions", "deletions", "commenters", "approvers", "jira_key", "jira_priority"}
        \subseteq DOMAIN mr
StepsBefore(step) ==
    CASE step = "diff" -> {}
      [] step = "comments" -> {"diff"}
      [] step = "approvals" -> {"diff", "comments"}
      [] step = "jira" -> {"diff", "comments", "approvals"}
      [] OTHER -> Steps
FailedSeen(k) == tasks[k].pc = "failed" /\ tasks[k].seen
KeyOfTitle(mr) == IF mr.title = "fix" THEN <<>> ELSE <<"RHEL-1">>

\* C14, as the specification states it: a record whose detail task failed
\* carries zero additions and deletions, empty commenter and approver lists
\* and no issue link.
C14_FailedRecordAllDefaults ==
    \A k \in DOMAIN tasks :
        FailedSeen(k) =>
            /\ cur_mrs[k].additions = 0 /\ cur_mrs[k].deletions = 0
            /\ cur_mrs[k].commenters = <<>> /\ cur_mrs[k].approvers = <<>>
            /\ cur_mrs[k].jira_key = <<>> /\ cur_mrs[k].jira_priority = <<>>

\* What a record holds once its task is over and collected: the fields of
\* the calls in `before` as fetched, the other fields as the defaults.
RecordAfter(k, before) ==
    LET mr == cur_mrs[k]
    IN /\ AllSix(mr)
       /\ IF "diff" \in before
          THEN mr.additions = DiffStats[1] /\ mr.deletions = DiffStats[2]
          ELSE mr.additions = 0 /\ mr.deletions = 0
       /\ IF "comments" \in before
          THEN mr.commenters \in CommentsFetched
          ELSE mr.commenters = <<>>
       /\ IF "approvals" \in before
          THEN mr.approvers \in ApprovalsFetched
          ELSE mr.approvers = <<>>
       /\ IF "approvals" \in before
          THEN mr.jira_key = KeyOfTitle(mr)
          ELSE mr.jira_key = <<>>
       /\ IF "jira" \in before
          THEN mr.jira_priority \in {<<>>, <<"Major">>}
          ELSE mr.jira_priority = <<>>

\* C14, amended: a failed detail task is logged and not run again; its
\* record keeps what the task fetched before the failing call and gets the
\* defaults (0, 0, [], [], None, None) for the rest; every other record is
\* enriched as if nothing had failed; the repository is appended with all
\* its records.
C14_FailedRecordPartialDefaults ==
    /\ [](\A k \in DOMAIN tasks :
            /\ FailedSeen(k) => RecordAfter(k, StepsBefore(tasks[k].failed_at))
            /\ tasks[k].pc = "done" => RecordAfter(k, Steps))
    /\ [](run.pc \in {"write", "dump"} =>
            /\ run.out[Len(run.out)].merge_requests = cur_mrs
            /\ Len(cur_mrs) = Len(tasks))
    /\ [][\A k \in DOMAIN tasks :
            tasks[k].pc = "failed" /\ run'.i = run.i => tasks'[k].pc = "failed"]_vars

\* A repository is written whose first record failed at the comments call and
\* keeps its diff statistics, while the second record is complete.
C14_Witness ==
    /\ run.pc = "dump"
    /\ Len(tasks) = 2
    /\ FailedSeen(1) /\ tasks[1].failed_at = "comments"
    /\ cur_mrs[1].additions = DiffStats[1] /\ cur_mrs[1].commenters = <<>>
    /\ tasks[2].pc = "done" /\ cur_mrs[2].approvers # <<>>

\* C15: on every exit path the file holds every repository appended before
\* the exit; the file is written right after each append, before anything
\* else is asked of a host; a repository once appended is never removed.
C15_CompletedReposFlushed ==
    /\ [](run.pc = "exited" /\ run.out # <<>> => run.disk = <<run.out>>)
    /\ [](run.pc \in {"list", "submit", "collect", "shutdown"} /\ run.out # <<>>
            => run.disk = <<run.out>>)
    /\ [][/\ Len(run'.out) > Len(run.out) => run'.pc = "write"
          /\ run.pc = "write" => run'.pc \in {"write", "dump", "hwrite"}
          /\ SubSeq(run'.out, 1, Len(run.out)) = run.out]_vars

\* The listing of the second repository raised after the first one was
\* written: the run ends with status 1 and the file holds the first.
C15_Witness ==
    /\ run.pc = "exited" /\ run.exit = 1 /\ run.online
    /\ run.i = 2 /\ Len(run.out) = 1
    /\ run.disk = <<run.out>>

\* C16: after a KeyboardInterrupt no listing and no further repository is
\* started and nothing more is submitted; the handler runs only when every
\* submitted task is over; the run ends with status 130, which no other
\* path produces, and the file holds the repositories appended so far.
C16_InterruptFlushesAndExits130 ==
    /\ [](run.intr => run.pc \in {"shutdown", "hwrite", "hdump", "exited"})
    /\ [][run.intr =>
            /\ run'.i = run.i /\ run'.out = run.out
            /\ \A k \in DOMAIN tasks :
                  /\ tasks[k].pc = "unsubmitted" => tasks'[k].pc = "unsubmitted"
                  /\ tasks[k].pc \in {"done", "failed"} => tasks'[k].pc = tasks[k].pc]_vars
    /\ [](run.intr /\ run.pc \in {"hwrite", "hdump", "exited"} =>
            \A k \in DOMAIN tasks : tasks[k].pc \in {"unsubmitted", "done", "failed"})
    /\ [](run.pc = "exited" =>
            IF run.intr THEN run.exit = 130 /\ run.disk = <<run.out>>
            ELSE run.exit \in {0, 1})

\* An interrupt during the second repository's detail phase: its task is
\* over but was never collected, the first repository is in the file, the
\* status is 130.
C16_Witness ==
    /\ run.pc = "exited" /\ run.intr /\ run.exit = 130
    /\ run.i = 2 /\ Len(run.out) = 1 /\ run.disk = <<run.out>>
    /\ Len(tasks) = 1 /\ tasks[1].pc = "done" /\ ~tasks[1].seen

NeededTokenAbsent == \E k \in DOMAIN conf.repos : conf.repos[k] \notin conf.tokens

\* C17: when the token of a host that a configured repository lives on is
\* absent, the run ends with status 1 before any request to any host and
\* writes nothing; absence of the issue-tracker token, or of the token of a
\* host no repository lives on, never ends the run at startup.
C17_MissingTokenAbortsBeforeNetwork ==
    /\ run.pc # "startup" /\ NeededTokenAbsent =>
            /\ run.pc = "exited" /\ run.exit = 1
            /\ ~run.online /\ run.out = <<>> /\ run.disk = <<>>
    /\ run.pc = "exited" /\ ~NeededTokenAbsent /\ conf.repos # <<>> =>
            run.online \/ run.exit = 130

\* Two repositories on two hosts, the token of the second host absent, the
\* issue-tracker token present: the run is over with status 1, offline.
C17_Witness ==
    /\ run.pc = "exited" /\ run.exit = 1 /\ ~run.online
    /\ Len(conf.repos) = 2 /\ conf.repos[1] \in conf.tokens
    /\ conf.repos[2] \notin conf.tokens /\ "jira" \in conf.tokens

\* C18: the issue lookup step never changes the statistics, the commenters
\* or the approvers of its record and always leaves the key of the title;
\* when the tracker answers with an HTTP error status or cannot be reached,
\* the task still succeeds and the priority is None; with no tracker
\* session, or no key in the title, the tracker is not asked at all.
C18_JiraFailureContained ==
    [][\A k \in DOMAIN tasks :
         tasks[k].pc = "jira" /\ tasks'[k].pc # "jira" =>
            LET reply == tasks'[k].reply
                before == cur_mrs[k]
                after == cur_mrs'[k]
            IN /\ after.additions = before.additions
               /\ after.deletions = before.deletions
               /\ after.commenters = before.commenters
               /\ after.approvers = before.approvers
               /\ after.jira_key = KeyOfTitle(before)
               /\ reply \in {"http_error", "conn_error"} =>
                     tasks'[k].pc = "done" /\ after.jira_priority = <<>>
               /\ "jira" \notin conf.tokens \/ before.title = "fix" =>
                     /\ reply = "none"
                     /\ tasks'[k].pc = "done" /\ after.jira_priority = <<>>]_vars

\* The tracker answered a keyed record with an HTTP error status: the task
\* is done, the key is kept, the priority is None, the comments are intact.
C18_Witness ==
    /\ Len(tasks) = 1
    /\ tasks[1].pc = "done" /\ tasks[1].reply = "http_error"
    /\ cur_mrs[1].jira_key = <<"RHEL-1">> /\ cur_mrs[1].jira_priority = <<>>
    /\ cur_mrs[1].commenters # <<>> /\ cur_mrs[1].additions = DiffStats[1]

NoBotEntry(entries, bots) == \A j \in DOMAIN entries : entries[j].username \notin bots
BotFree(mr, bots) ==
    /\ Has(mr, "commenters") =>
          /\ NoBotEntry(mr.commenters, bots)
          /\ \A j \in DOMAIN mr.commenters : mr.commenters[j].created_at # "t-system"
    /\ Has(mr, "approvers") =>
          /\ NoBotEntry(mr.approvers, bots)
          /\ \A j \in DOMAIN mr.approvers : mr.approvers[j].approved_at = "t-approved"

\* C19: no record returned by a listing fetcher has a configured bot as its
\* author; no commenter entry of a record, in the task's hands or in the
\* output, has a bot's username or comes from a system note; no approver
\* entry has a bot's username.
C19_NoBotAttribution ==
    /\ \A i \in DOMAIN all_mrs : all_mrs[i].author \notin bot_accounts
    /\ run.pc # "none" =>
          /\ \A k \in DOMAIN cur_mrs : BotFree(cur_mrs[k], conf.bots)
          /\ \A r \in DOMAIN run.out :
                \A k \in DOMAIN run.out[r].merge_requests :
                    BotFree(run.out[r].merge_requests[k], conf.bots)

\* A GitLab listing has been served the bot's merge request 2: it is marked
\* as seen and is not among the records collected.
C19_Witness ==
    /\ forge = "gitlab" /\ bot_accounts = {"ci-bot"}
    /\ 2 \in seen_iids /\ AuthorOf(2) = "ci-bot"
    /\ all_mrs # <<>>
    /\ \A i \in DOMAIN all_mrs : all_mrs[i].iid # 2

\* C20: an HTTP error response to a request of fetch_merge_requests never
\* ends the call with an exception: the call goes on with a shifted window
\* or returns the records collected so far.
C20_HttpErrorNeverSurfaces ==
    (forge = "gitlab" /\ last.ev = "error") => pc \in {"loop", "returned"}

(***************************************************************************)
(* Further properties of the listing fetchers.                             *)
(***************************************************************************)
Window(p) == <<p.created_before, p.created_after>>
WindowMoved ==
    WindowActive(params') /\ (~WindowActive(params) \/ Window(params') # Window(params))

\* C21: a step that moves the window of fetch_merge_requests is a shift of
\* the paginator after a request: it sets page to 1 and created_before to the
\* created_after of the window before (the first shift to the created_at of
\* the last collected record); an active window never goes away, and its
\* created_after is always earlier than its created_before.
C21_WindowContiguity ==
    /\ [](WindowActive(params) =>
            fromisoformat(params.created_after) < fromisoformat(params.created_before))
    /\ [][forge = "gitlab" =>
            /\ WindowActive(params) => WindowActive(params')
            /\ params' # params => requests' = requests + 1
            /\ WindowMoved =>
                  /\ last'.shifted /\ ShiftTried(last')
                  /\ params'.page = 1
                  /\ IF WindowActive(params)
                     THEN params'.created_before = params.created_after
                     ELSE params'.created_before = all_mrs'[Len(all_mrs')].created_at]_vars

\* After at least four requests a shift has moved a window that was already
\* active: the cursor is on page 1 of the next window.
C21_Witness ==
    /\ forge = "gitlab"
    /\ last.shifted /\ last.windowed
    /\ requests >= 4
    /\ params.page = 1
    /\ WindowActive(params)

\* C22: in fetch_merge_requests an empty page adds one to the empty-window
\* counter, a non-empty page sets it to 0 and an HTTP error leaves it as it
\* is; the fifth empty page in a row ends the call, which returns the records
\* collected so far without another request.
C22_EmptyWindowCounter ==
    /\ [](forge = "gitlab" =>
            /\ empty_window_count <= 5
            /\ empty_window_count = 5 => pc = "returned")
    /\ [][forge = "gitlab" /\ requests' = requests + 1 =>
            /\ last'.ev = "empty" => empty_window_count' = empty_window_count + 1
            /\ last'.ev \in {"page", "stale", "lastpage"} => empty_window_count' = 0
            /\ last'.ev = "error" => empty_window_count' = empty_window_count
            /\ last'.ev = "empty" /\ empty_window_count' = 5 =>
                  pc' = "returned" /\ all_mrs' = all_mrs]_vars

\* Five empty pages in a row after two records: the call has returned.
C22_Witness ==
    /\ forge = "gitlab"
    /\ empty_window_count = 5
    /\ pc = "returned"
    /\ Len(all_mrs) >= 2
    /\ last.ev = "empty"

(***************************************************************************)
(* Properties of the throttle's lock.                                      *)
(***************************************************************************)
\* The worker is at a statement that reads or writes self._limit,
\* self._remaining or self._reset_ts, and executes it.
TouchesQuota(w) ==
    /\ wk[w].pc \in {"w_locked", "w_print", "u_locked"}
    /\ wk'[w].pc # wk[w].pc

\* C23: a worker reads or writes the quota state only while it holds the
\* throttle's lock, and what it reports about the quota is what it read
\* under the lock; a worker that waits for the reset does not hold the lock.
C23_QuotaOnlyUnderLock ==
    /\ [][\A w \in Workers : TouchesQuota(w) => thr.lock = w]_vars
    /\ [](\A w \in Workers : wk[w].pc = "waiting" =>
              thr.lock # w /\ wk[w].printed = wk[w].decided)

\* The part of C23 about the waiting: the lock is held only inside the two
\* with blocks, never by a worker that prints or sleeps, and a worker that
\* holds it is never kept from leaving its block.
LockNeverHeldWhileWaiting ==
    /\ [](\A w \in Workers :
            /\ wk[w].pc \in {"w_print", "waiting"} => thr.lock # w
            /\ thr.lock = w <=> wk[w].pc \in {"w_locked", "u_locked"})
    /\ [](\A w \in Workers :
            /\ wk[w].pc = "w_locked" => ENABLED WaitLocked(w)
            /\ wk[w].pc = "u_locked" => ENABLED UpdateLocked(w)
            /\ (wk[w].pc \in {"check", "u_acquire"} /\ thr.lock = 0) => ENABLED LockAcquire(w))

(***************************************************************************)
(* Further properties of the orchestrator.                                 *)
(***************************************************************************)
InTask(k) == tasks[k].pc \in {"diff", "comments", "approvals", "jira"}
SameListing == run.pc # "list" /\ DOMAIN cur_mrs' = DOMAIN cur_mrs

\* C24: every record has one task, submitted once; a record is written
\* only by a step of its own task while that task runs, or by the main
\* thread filling the defaults after that task has failed, and by one of
\* them at a time; the main thread handles a record only once its task is
\* over, and nobody writes it afterwards.
C24_OneWriterPerRecord ==
    /\ [](/\ Len(tasks) = Len(cur_mrs)
          /\ \A k \in DOMAIN tasks : tasks[k].seen => tasks[k].pc \in {"done", "failed"})
    /\ [][SameListing =>
            \A k \in DOMAIN cur_mrs :
               /\ tasks[k].pc \notin {"unsubmitted", "queued"} =>
                     tasks'[k].pc \notin {"unsubmitted", "queued"}
               /\ cur_mrs'[k] # cur_mrs[k] =>
                     /\ \A j \in DOMAIN cur_mrs : j # k =>
                           cur_mrs'[j] = cur_mrs[j] /\ tasks'[j] = tasks[j]
                     /\ \/ InTask(k) /\ tasks'[k].pc # tasks[k].pc /\ run' = run
                        \/ /\ tasks[k].pc = "failed" /\ tasks'[k].pc = "failed"
                           /\ ~tasks[k].seen /\ tasks'[k].seen
                           /\ run.pc = "collect"]_vars

\* The first record's task failed at once and the main thread has filled in
\* its defaults while the second record's task is still running.
C24_Witness ==
    /\ Len(tasks) = 2
    /\ FailedSeen(1) /\ tasks[1].failed_at = "diff" /\ AllSix(cur_mrs[1])
    /\ tasks[2].pc = "approvals" /\ Has(cur_mrs[2], "commenters")

(***************************************************************************)
(* Properties of the generic paginator.                                    *)
(***************************************************************************)
FullOkPage(r, per_page) == r.kind = "ok" /\ r.data # <<>> /\ ~(Len(r.data) < per_page)

\* C25: _github_paginated_get asks for the pages 1, 2, 3, ... in turn;
\* every response before the last one was a non-empty page of at least
\* per_page entries; the pages yielded are the non-empty pages received, in
\* the order received, each once; after an empty or a short page it has
\* returned, after an error of _checked_get it has raised, and otherwise it
\* goes on with the next page.
C25_PaginatorOrder ==
    forge = "paginator" =>
        LET n == Len(last.got)
        IN /\ Len(last.asked) = n /\ requests = n
           /\ \A i \in 1..n : last.asked[i] = i
           /\ \A i \in 1..(n - 1) : FullOkPage(last.got[i], limit)
           /\ Len(last.yielded) = n - (IF n > 0 /\ ~(last.got[n].kind = "ok"
                                                     /\ last.got[n].data # <<>>)
                                       THEN 1 ELSE 0)
           /\ \A i \in DOMAIN last.yielded : last.yielded[i] = last.got[i].data
           /\ n > 0 =>
                 pc = (IF last.got[n].kind = "error" THEN "raised"
                       ELSE IF FullOkPage(last.got[n], limit) THEN "loop"
                       ELSE "returned")
           /\ pc = "loop" => req_page = n + 1

\* Two full pages, then a short one that ended the iteration: three pages
\* were yielded.
C25_Witness ==
    /\ forge = "paginator"
    /\ limit = 2
    /\ pc = "returned"
    /\ Len(last.yielded) = 3
    /\ Len(last.got[3].data) = 1
    /\ last.got[1].data # last.got[2].data

(***************************************************************************)
(* Properties of the order of steps of a request.                          *)
(***************************************************************************)
Leaves(w, at) == wk[w].pc = at /\ wk'[w].pc # at
Enters(w, at) == wk[w].pc # at /\ wk'[w].pc = at
GotResponse(w) ==
    wk[w].kind = "simple" \/ hist'.log[Len(hist'.log)] # 0

\* C26: a request is sent only by a worker that has come out of
\* wait_if_needed for this very attempt; the response is handed to
\* update_from_response before its status decides between return, raise and
\* retry, also when the status is an error; a retry starts again at
\* wait_if_needed.
C26_RequestStepOrder ==
    [][\A w \in Workers :
         /\ Enters(w, "ready") => wk[w].pc \in {"check", "waiting"}
         /\ Enters(w, "waiting") => wk[w].pc = "check" /\ MustWait(thr, now)
         /\ Enters(w, "inflight") => wk[w].pc = "ready" /\ hist'.sent = hist.sent + 1
         /\ Leaves(w, "ready") => wk'[w].pc = "inflight"
         /\ Leaves(w, "inflight") =>
               /\ hist'.n = hist.n + 1
               /\ thr' = IF GotResponse(w)
                         THEN update_from_response(thr, hist'.resp[1])
                         ELSE thr
               /\ wk'[w].pc \in {"check", "done", "returned", "raised", "sleeping"}
         /\ Enters(w, "check") => wk[w].pc \in {"inflight", "sleeping"}
         /\ Leaves(w, "sleeping") => wk'[w].pc = "check"
         /\ thr' # thr => \E v \in Workers : Leaves(v, "inflight")]_vars

\* A 500 whose headers announced a spent quota was retried: the throttle
\* holds that quota, and the second attempt went through wait_if_needed
\* before it was sent.
C26_Witness ==
    /\ hist.grid = "retry"
    /\ wk[1].pc = "inflight" /\ wk[1].attempt = 2
    /\ hist.log = <<500>>
    /\ thr.remaining = <<0>> /\ thr.reset_ts = <<ResetAt>>
    /\ now >= ResetAt

(***************************************************************************)
(* C27.  Termination of fetch_merge_requests, as a variant.  Rank is the   *)
(* triple <<records still wanted, 1 before the first shift and 0 after,    *)
(* distance of the window's lower bound from datetime.min>>; its           *)
(* components are natural numbers, so the lexicographic order on it is     *)
(* well-founded.  Every listing request after which the loop goes on (a    *)
(* failed request, an empty page, a page of only seen or bot-authored      *)
(* records, a page with new records) lowers Rank, so no run issues         *)
(* infinitely many requests, whatever the host answers.  The run may end   *)
(* by return or by the OverflowError of _shift_window.                     *)
(***************************************************************************)
Rank ==
    <<limit - Len(all_mrs),
      IF WindowActive(params) THEN 0 ELSE 1,
      IF WindowActive(params) THEN fromisoformat(params.created_after) - MinTime ELSE 0>>

LexLess(a, b) ==
    \/ a[1] < b[1]
    \/ a[1] = b[1] /\ a[2] < b[2]
    \/ a[1] = b[1] /\ a[2] = b[2] /\ a[3] < b[3]

RankIsNatural == \A k \in 1..3 : Rank[k] >= 0

\* C27: every listing request of fetch_merge_requests that leaves the loop
\* running lowers a well-founded rank, hence the requests of a run are
\* finitely many for every sequence of host responses.
C27_RequestsLowerRank ==
    /\ [](forge = "gitlab" => RankIsNatural)
    /\ [][(forge = "gitlab" /\ requests' = requests + 1 /\ pc' = "loop")
            => LexLess(Rank', Rank)]_vars

\* A windowed request answered by a page holding only seen or bot-authored
\* records, after an earlier failed request, and the loop goes on.
C27_Witness ==
    /\ forge = "gitlab"
    /\ host.mode = "any"
    /\ pc = "loop"
    /\ last.ev = "stale"
    /\ last.windowed
    /\ last.shifted
    /\ requests >= 3


(***************************************************************************)
(* C28.  Completeness of the GitLab listing when requests fail.            *)
(***************************************************************************)
ResultIids == {all_mrs[k].iid : k \in DOMAIN all_mrs}

HeldRecords == {i \in 1..host.n : ~is_bot_account(AuthorOf(i), bot_accounts)}

\* The records the host would serve on the pages page.. of the window of p.
UnfetchedOf(p, per_page) ==
    LET listing == SelectSeqOf(Descending(host.n), fromisoformat(p.created_after),
                               fromisoformat(p.created_before))
    IN {listing[k].iid : k \in ((p.page - 1) * per_page + 1)..Len(listing)}

CompleteAboveLastWindow ==
    (/\ forge = "gitlab"
     /\ host.mode = "flaky"
     /\ pc = "returned"
     /\ Len(all_mrs) < limit
     /\ WindowActive(params))
    => \A i \in HeldRecords :
          CreatedAtOf(i) > fromisoformat(params.created_after) => i \in ResultIids

ErrorShiftKeepsUnfetched ==
    (/\ forge = "gitlab"
     /\ host.mode = "flaky"
     /\ WindowActive(params)
     /\ params.page > 1
     /\ requests' = requests + 1
     /\ last'.ev = "error"
     /\ last'.shifted)
    => \A i \in UnfetchedOf(params, GitLabPerPage) \cap HeldRecords :
          \/ i \in ResultIids
          \/ InWindow(Item(i), fromisoformat(params'.created_after),
                      fromisoformat(params'.created_before))

\* C28: when fetch_merge_requests returns fewer than limit records, every
\* non-bot merge request of the host newer than the lower bound of the last
\* window queried is in the result, failed requests or not; and a shift
\* after a failed request for page k > 1 of an active window leaves no
\* record of the unfetched pages of that window outside the next window.
C28_CompleteUnderFailures ==
    /\ []CompleteAboveLastWindow
    /\ [][ErrorShiftKeepsUnfetched]_vars


(***************************************************************************)
(* C29.  What holds when a repository is appended to the output.           *)
(***************************************************************************)
Appends == Len(run'.out) = Len(run.out) + 1

\* C29: at the step that appends a repository to the output every detail
\* task of the repository is over, by success or by failure, and every
\* record of the appended repository carries the six enrichment fields,
\* whichever step of its detail fetch failed; the records already in the
\* output keep them.
C29_AppendedRecordsEnriched ==
    /\ [][Appends =>
            /\ DOMAIN tasks = Finished
            /\ LET appended == run'.out[Len(run'.out)].merge_requests
               IN /\ DOMAIN appended = DOMAIN tasks
                  /\ \A k \in DOMAIN appended : AllSix(appended[k])]_vars
    /\ [](\A r \in DOMAIN run.out :
            \A k \in DOMAIN run.out[r].merge_requests :
               AllSix(run.out[r].merge_requests[k]))

\* A repository has just been appended; one of its tasks failed at its very
\* first step and another one succeeded.
C29_Witness ==
    /\ run.pc = "write"
    /\ Len(run.out) = 1
    /\ \E k, j \in DOMAIN tasks :
          /\ tasks[k].pc = "failed"
          /\ tasks[k].failed_at = "diff"
          /\ tasks[j].pc = "done"


(***************************************************************************)
(* C30.  The order of the output does not depend on the scheduling of the  *)
(* detail tasks.  The listing of a repository produces record k at         *)
(* position k (Listed), and repository r of the configuration is written   *)
(* with repo = r.                                                          *)
(***************************************************************************)
InListingOrder(mrs) == \A k \in DOMAIN mrs : mrs[k].iid = k

OutputInOrder ==
    /\ Len(run.out) <= Len(conf.repos)
    /\ \A r \in DOMAIN run.out :
          /\ run.out[r].repo = r
          /\ InListingOrder(run.out[r].merge_requests)

\* C30: in every reachable state the repositories of the output are a
\* prefix of the configured repositories, in configuration order and each
\* once, and the records of each repository are in the order the listing
\* produced them; no step of a detail task or of the collecting loop moves
\* a record of the current repository, whatever order the tasks end in.
C30_OutputOrder ==
    /\ [](OutputInOrder /\ InListingOrder(cur_mrs))
    /\ [][Appends => run'.out = Append(run.out, run'.out[Len(run'.out)])]_vars

\* One repository is in the output with all its records; in the second one
\* the task of the last record is over while the task of the first one is
\* still running.
C30_Witness ==
    /\ run.pc = "collect"
    /\ Len(run.out) = 1
    /\ Len(run.out[1].merge_requests) = MaxRecs
    /\ Len(cur_mrs) = MaxRecs
    /\ tasks[MaxRecs].pc = "done"
    /\ tasks[1].pc \in {"diff", "comments", "approvals", "jira"}


====
